---- MODULE Spec2Model ----
(***************************************************************************)
(* Audio front-end of the Jarvis voice assistant (src-tauri/src).          *)
(*                                                                         *)
(* Several views of the same program are modelled.                         *)
(*                                                                         *)
(*  Spec      sample level: the shared Frame Buffer                        *)
(*            (Arc<Mutex<VecDeque<i16>>>), the capture callback of         *)
(*            start_audio_stream, next_audio_frame, and the loop that      *)
(*            calls it (wait_for_wakeword / record_command).  A sample is  *)
(*            identified by its position in the stream handed to the       *)
(*            capture callback (1, 2, 3, ...).                             *)
(*                                                                         *)
(*  SpecSeg   frame level: wait_for_wakeword, record_command and the       *)
(*            controller loop that sequences them, with the shared         *)
(*            is_running flag.  A frame is identified by its position in   *)
(*            the stream of frames returned by next_audio_frame.           *)
(*                                                                         *)
(*  SpecTurn  the session thread of SpecSeg from start_jarvis to its end,  *)
(*            with the phase events it emits, next to the commands the     *)
(*            front end may invoke meanwhile.                              *)
(*                                                                         *)
(*  SpecCapture, SpecRate                                                  *)
(*            the capture callback with its down-mix and resampler, on a   *)
(*            device of any native rate: by the samples of a short run,    *)
(*            and by the sample counts of a long one.                      *)
(***************************************************************************)
EXTENDS Integers, Sequences, FiniteSets, TLC

(***************************************************************************)
(* Bounds of the model                                                     *)
(***************************************************************************)
\* capacity of the Frame Buffer, in samples (SAMPLE_RATE * 5 in the program)
Capacity == 3
\* samples handed to the capture callback over a run
MaxSamples == 6
\* longest hardware buffer handed to one callback invocation
MaxData == 2
\* longest frame a caller of next_audio_frame asks for
MaxFrameLen == 2
\* frames returned by next_audio_frame over a run
MaxTakes == 4
\* frames the hardware delivers in one callback invocation (capture stream)
MaxBurst == 3
\* frames the hardware delivers over a run whose samples are followed
MaxStream == 8
\* length, in hundredths of a second, of a run whose samples are counted
MaxCentiseconds == 2
\* channels of the input device
MaxChannels == 2
\* input devices of the host
MaxDevices == 2
\* the keyword engine answers -1 or an index up to this one
MaxKeyword == 1
\* calls of cmd_start_jarvis
MaxStarts == 3
\* calls of cmd_stop_jarvis
MaxStops == 2

\* audio_input.rs: pub const SAMPLE_RATE
SAMPLE_RATE == 16000

Min(a, b) == IF a < b THEN a ELSE b
Max(a, b) == IF a > b THEN a ELSE b

\* <<a, a+1, ..., b>> (empty when b < a)
Range(a, b) == [i \in 1..(b - a + 1) |-> a + i - 1]

VARIABLES
    \* ---- sample level ----
    audio_buffer,     \* VecDeque<i16>: the buffered samples, oldest first
    lock_holder,      \* owner of the buffer mutex: "none", "callback", "reader"
    poisoned,         \* the mutex is poisoned (a holder panicked)
    cb_pc,            \* capture callback: "idle", "lock", "push", "dead"
    cb_data,          \* samples of the current invocation not yet pushed
    rd_pc,            \* next_audio_frame: "idle", "lock", "check", "sleep", "ret", "err"
    frame_size,       \* argument of the current next_audio_frame call
    rd_frame,         \* frame returned by the last successful call
    caller,           \* loop calling next_audio_frame: "gate", "record", "ended"
    frame_lengths,    \* config: [wwd |-> frame_length_wwd, vad |-> frame_length_vad]
    \* ---- sample level, history ----
    handed,           \* number of samples handed to the capture callback so far
    last_pushed,      \* last sample appended to the buffer (0: none)
    pushed_since_take,\* samples appended since the last successful take
    evictions,        \* number of pop_front evictions so far
    dropped,          \* samples handed to the callback and never appended
    delivered,        \* concatenation of all frames returned to the callers
    takers,           \* caller of each returned frame, in delivery order
    \* ---- frame level ----
    config,           \* models::Config: frame_duration_ms, silence_threshold_seconds,
                      \*   speech_trigger_frames
    vad_script,       \* what the VAD will answer: <<>> any answer per frame, else the
                      \*   answers of frames 1, 2, ... of a call, repeated cyclically
    is_running,       \* Arc<AtomicBool> shared with cmd_stop_jarvis
    ctl_pc,           \* position of the session thread
    frame_count,      \* frame_count of the running wait_for_wakeword / record_command
    silence_threshold_frames, \* locals of record_command ...
    is_speaking,
    silent_frames,
    speech_frames,
    speech_segment,   \* ... the utterance, as the sequence of its frames
    recent_frames,    \* ... the pre-roll, as the sequence of its frames
    outcome,          \* result of the last Gate / Segmenter call
    \* ---- frame level, history of the running call ----
    frames_taken,     \* frames returned by next_audio_frame
    frames_seen,      \* frames classified by the VAD
    run_speech,       \* length of the run of speech frames ending at the last frame
    run_silence,      \* length of the run of silence frames ending at the last frame
    on_script,        \* the frames so far were speech_trigger_frames speech, then silence
    frames_after_stop,\* frames returned by next_audio_frame while is_running was false
    \* ---- turn controller: what the observers are told ----
    phase,            \* payload of the last "jarvis-state-changed" event
    phase_writer,     \* who emitted it: "none", "controller", "observer"
    last_emitted,     \* last phase emitted by the session thread ("Idle" before any)
    prev_emitted,     \* the phase it emitted before that ("none" before any)
    failure_reported, \* start_jarvis has emitted its failure message
    last_call,        \* the last loop entered: "none", "gate", "record"
    result_samples,   \* Vec<i16> the controller got from record_command, as frames
    stt_called,       \* get_text::transcribe was called for the current recording
    \* ---- capture stream: down-mix and resampler ----
    input_sample_rate,\* stream_config.sample_rate, in Hz
    channels,         \* stream_config.channels
    resample_factor,  \* input_sample_rate / SAMPLE_RATE, in units of 1 / SAMPLE_RATE
    resample_pos,     \* the phase, in units of 1 / SAMPLE_RATE
    hw_frames,        \* frames (one sample per channel) delivered by the hardware so far
    pushed_count,     \* samples handed to the push loop so far
    hw_data,          \* the interleaved buffer of the last callback invocation
    cb_out,           \* the samples the last invocation handed to the push loop
    hw_splits,        \* the lengths, in frames, of the buffers delivered so far
    cap_mono,         \* all samples fed to the resampler so far
    cap_pushed,       \* all samples handed to the push loop so far
    \* ---- capture stream: device selection ----
    host_devices,     \* names of the input devices of the host, in enumeration order
    enumeration_fails,\* host.input_devices() returns Err
    microphone_name,  \* config.default_microphone_name: NoName or the query
    microphone_index, \* config.default_microphone_index
    chosen_device,    \* <<>>, or <<r>> once choose_input_device returned: an index, -1 for None
    \* ---- session thread: what it holds besides the segmenter's locals ----
    keyword_index,    \* <<>>, or <<i>>: what porcupine.process returned for the last frame
    stt_input,        \* audio_for_transcribe: the utterance and the zeros after it
    \* ---- the commands of lib.rs and the threads they leave behind ----
    handle,           \* JarvisState.handle: "none" or "some"
    capture_streams,  \* capture threads that are alive
    start_error,      \* the last cmd_start_jarvis returned Err
    starts,           \* calls of cmd_start_jarvis so far
    orphans,          \* session threads alive whose handle was replaced
    stop_error,       \* the last cmd_stop_jarvis returned Err
    stops             \* calls of cmd_stop_jarvis so far

bufVars == <<audio_buffer, lock_holder, poisoned, cb_pc, cb_data, rd_pc, frame_size,
             rd_frame, caller, frame_lengths, handed, last_pushed,
             pushed_since_take, evictions, dropped, delivered, takers>>

segVars == <<config, vad_script, is_running, ctl_pc, frame_count,
             silence_threshold_frames, is_speaking, silent_frames, speech_frames,
             speech_segment, recent_frames, outcome, frames_taken, frames_seen,
             run_speech, run_silence, on_script, frames_after_stop,
             phase, phase_writer, last_emitted, prev_emitted, failure_reported,
             last_call, result_samples, stt_called>>

\* what the session thread tells the observers, and what it hands on
turnVars == <<phase, phase_writer, last_emitted, prev_emitted, failure_reported,
              last_call, result_samples, stt_called>>

capVars == <<input_sample_rate, channels, resample_factor, resample_pos, hw_frames,
             pushed_count, hw_data, cb_out, hw_splits, cap_mono, cap_pushed>>

devVars == <<host_devices, enumeration_fails, microphone_name, microphone_index,
             chosen_device>>

threadVars == <<handle, capture_streams, start_error, starts, orphans>>

stopVars == <<stop_error, stops>>

lifeVars == <<keyword_index, stt_input, threadVars, stopVars>>

vars == <<bufVars, segVars, capVars, devVars, lifeVars>>

(***************************************************************************)
(* Frame Buffer operations (audio_input.rs)                                *)
(***************************************************************************)
\* mutants of PushSample: append without evicting; keep the old samples at capacity
PushSampleNoEvict(b, s) == Append(b, s)
PushSampleDropNewest(b, s) == IF Len(b) >= Capacity THEN b ELSE Append(b, s)

\* one iteration of the push loop: evict the front at capacity, then push_back
PushSample(b, s) ==
    IF Len(b) >= Capacity THEN Append(Tail(b), s) ELSE Append(b, s)

\* mutant of FrameAvailable: a full buffer counts as a frame
FrameAvailableAtCapacity(b, n) == Len(b) >= Min(n, Capacity)

\* the availability test of next_audio_frame
FrameAvailable(b, n) == Len(b) >= n

\* mutant of Drained: one sample short
DrainedShort(b, n) == SubSeq(b, 1, Max(n - 1, 0))

\* buf.drain(..frame_size).collect(): the frame returned ...
Drained(b, n) == SubSeq(b, 1, n)

\* mutant of Remaining: the last drained sample stays in the buffer
RemainingKeepsOne(b, n) == SubSeq(b, Max(n, 1), Len(b))

\* ... and what drain leaves in the buffer
Remaining(b, n) == SubSeq(b, n + 1, Len(b))

(***************************************************************************)
(* Capture stream: down-mix and resampler (audio_input.rs).  The phase     *)
(* resample_pos and the factor are f64 in the program; here both are exact *)
(* multiples of 1 / SAMPLE_RATE, so 1.0 is SAMPLE_RATE and the factor of   *)
(* an input rate R is R.                                                   *)
(***************************************************************************)
\* native rates of the input device
Rates == {8000, 16000, 44100, 48000}

\* `if input_sample_rate != SAMPLE_RATE { rate / SAMPLE_RATE } else { 1.0 }`
ResampleFactor(rate) == IF rate # SAMPLE_RATE THEN rate ELSE SAMPLE_RATE

\* mutant of StepBy: every channel is kept
StepByAll(data, c) == data

\* data.iter().step_by(channels): the first element, then every c-th
RECURSIVE StepBy(_, _)
StepBy(data, c) ==
    IF data = <<>> THEN <<>>
    ELSE <<Head(data)>> \o StepBy(SubSeq(data, c + 1, Len(data)), c)

\* mutant of WhileEmit: `if` for `while`, at most one push per input sample
WhileEmitOnce(pos, factor, n) ==
    IF pos < SAMPLE_RATE THEN [pos |-> pos + factor, n |-> n + 1]
    ELSE [pos |-> pos, n |-> n]

\* `while resample_pos < 1.0 { push(sample); resample_pos += resample_factor }`:
\* the phase after the loop and the number of pushes
RECURSIVE WhileEmit(_, _, _)
WhileEmit(pos, factor, n) ==
    IF pos < SAMPLE_RATE THEN WhileEmit(pos + factor, factor, n + 1)
    ELSE [pos |-> pos, n |-> n]

\* mutant of ResampleSample: the phase is not wrapped
ResampleSampleNoWrap(pos, factor) == WhileEmit(pos, factor, 0)

\* the body of `for sample in input_samples`: the while loop, then
\* `resample_pos -= 1.0`
ResampleSample(pos, factor) ==
    LET w == WhileEmit(pos, factor, 0)
    IN  [pos |-> w.pos - SAMPLE_RATE, n |-> w.n]

\* `for sample in input_samples { .. }`: the samples pushed to `resampled`
\* and the phase left behind
RECURSIVE ResampleLoop(_, _, _)
ResampleLoop(samples, pos, factor) ==
    IF samples = <<>> THEN [out |-> <<>>, pos |-> pos]
    ELSE LET r == ResampleSample(pos, factor)
             rest == ResampleLoop(Tail(samples), r.pos, factor)
         IN  [out |-> [i \in 1..r.n |-> Head(samples)] \o rest.out, pos |-> rest.pos]

\* the same loop over k samples, by counts
RECURSIVE ResampleCount(_, _, _)
ResampleCount(k, pos, factor) ==
    IF k = 0 THEN [n |-> 0, pos |-> pos]
    ELSE LET r == ResampleSample(pos, factor)
             rest == ResampleCount(k - 1, r.pos, factor)
         IN  [n |-> r.n + rest.n, pos |-> rest.pos]

\* mutant of ResampleBuffer: the phase starts anew in every invocation
ResampleBufferFresh(samples, pos, factor) == ResampleLoop(samples, 0, factor)

\* one invocation: resample_pos is captured by the closure and carried over
ResampleBuffer(samples, pos, factor) == ResampleLoop(samples, pos, factor)

\* the push loop over the samples of one invocation
RECURSIVE PushAll(_, _)
PushAll(b, samples) ==
    IF samples = <<>> THEN b ELSE PushAll(PushSample(b, Head(samples)), Tail(samples))

\* a stream that has delivered nothing yet; the phase starts at 0.0
CapFresh ==
    /\ resample_factor = ResampleFactor(input_sample_rate)
    /\ resample_pos = 0
    /\ hw_frames = 0
    /\ pushed_count = 0
    /\ hw_data = <<>>
    /\ cb_out = <<>>
    /\ hw_splits = <<>>
    /\ cap_mono = <<>>
    /\ cap_pushed = <<>>

\* the device offers 16 kHz mono: nothing to convert
CapIdle ==
    /\ input_sample_rate = SAMPLE_RATE
    /\ channels = 1
    /\ CapFresh

\* the input callback, whole: the hardware delivers n frames; the sample at
\* position i of the interleaved stream has the value i
CaptureCallback ==
    /\ lock_holder = "none"
    /\ ~poisoned
    /\ \E n \in 1..MaxBurst :
        /\ hw_frames + n <= MaxStream
        /\ LET data == Range(hw_frames * channels + 1, (hw_frames + n) * channels)
               input_samples == StepBy(data, channels)
               r == IF resample_factor # SAMPLE_RATE
                      THEN ResampleBuffer(input_samples, resample_pos, resample_factor)
                      ELSE [out |-> input_samples, pos |-> resample_pos]
           IN  /\ hw_data' = data
               /\ cb_out' = r.out
               /\ resample_pos' = r.pos
               /\ audio_buffer' = PushAll(audio_buffer, r.out)
               /\ cap_mono' = cap_mono \o input_samples
               /\ cap_pushed' = cap_pushed \o r.out
               /\ pushed_count' = pushed_count + Len(r.out)
        /\ hw_frames' = hw_frames + n
        /\ hw_splits' = Append(hw_splits, n)
    /\ UNCHANGED <<input_sample_rate, channels, resample_factor>>
    /\ UNCHANGED <<lock_holder, poisoned, cb_pc, cb_data, rd_pc, frame_size, rd_frame,
                   caller, frame_lengths, handed, last_pushed, pushed_since_take,
                   evictions, dropped, delivered, takers>>
    /\ UNCHANGED <<segVars, devVars, lifeVars>>

\* the resample loop of one invocation over a mono buffer of n frames, seen
\* through the number of samples in and out
CaptureCallbackCounted ==
    /\ \E n \in 1..MaxBurst :
        /\ (hw_frames + n) * 100 <= MaxCentiseconds * input_sample_rate
        /\ LET r == IF resample_factor # SAMPLE_RATE
                      THEN ResampleCount(n, resample_pos, resample_factor)
                      ELSE [n |-> n, pos |-> resample_pos]
           IN  /\ resample_pos' = r.pos
               /\ pushed_count' = pushed_count + r.n
        /\ hw_frames' = hw_frames + n
    /\ UNCHANGED <<input_sample_rate, channels, resample_factor, hw_data, cb_out,
                   hw_splits, cap_mono, cap_pushed>>
    /\ UNCHANGED <<bufVars, segVars, devVars, lifeVars>>

(***************************************************************************)
(* Device selection (audio_input.rs, choose_input_device).  A device name  *)
(* is a sequence of characters; Unreadable stands for a device whose       *)
(* name() fails.  A device is identified by its index in the enumeration.  *)
(***************************************************************************)
Unreadable == <<"unreadable">>

\* config.default_microphone_name is None
NoName == <<"none">>

\* names of devices, in lower, upper and mixed case
DeviceNames == {<<"m">>, <<"M">>, <<"M", "u">>, <<"u", "M">>, Unreadable}

\* name queries: the empty string, lower and upper case, and no query
NameQueries == {<<>>, <<"m">>, <<"U">>, <<"m", "u">>, <<"u", "m">>, NoName}

\* what host.input_devices() may give: an error, or the list of the devices
DeviceLists == UNION {[1..n -> DeviceNames] : n \in 0..MaxDevices}

\* to_lowercase, per character and per string
LowerChar(ch) == IF ch = "M" THEN "m" ELSE IF ch = "U" THEN "u" ELSE ch

ToLowercase(str) == [i \in 1..Len(str) |-> LowerChar(str[i])]

\* str::contains
Contains(str, pat) ==
    \E i \in 0..(Len(str) - Len(pat)) : SubSeq(str, i + 1, i + Len(pat)) = pat

\* mutant of NameMatches: the device name is compared as it is
NameMatchesCaseSensitive(dev_name, q) ==
    IF dev_name = Unreadable THEN FALSE ELSE Contains(dev_name, q)

\* `d.name().map(|n| n.to_lowercase().contains(&q)).unwrap_or(false)`
NameMatches(dev_name, q) ==
    IF dev_name = Unreadable THEN FALSE ELSE Contains(ToLowercase(dev_name), q)

\* devices.iter().find(..): the index of the first match from i on, -1 if none
RECURSIVE FindDevice(_, _, _)
FindDevice(devices, q, i) ==
    IF i >= Len(devices) THEN -1
    ELSE IF NameMatches(devices[i + 1], q) THEN i
    ELSE FindDevice(devices, q, i + 1)

\* mutant of IndexFallback: an index out of range selects nothing
IndexFallbackNone(devices, index) == IF index < Len(devices) THEN index ELSE -1

\* `match devices.get(index)`: the device at index, else the one at 0
IndexFallback(devices, index) ==
    IF index < Len(devices) THEN index
    ELSE IF Len(devices) > 0 THEN 0
    ELSE -1

\* choose_input_device: the index of the selected device, -1 for None
ChooseInputDeviceResult(enumeration_err, enumerated, name, index) ==
    IF enumeration_err THEN -1
    ELSE IF enumerated = <<>> THEN -1
    ELSE LET found == IF name = NoName THEN -1
                      ELSE FindDevice(enumerated, ToLowercase(name), 0)
         IN  IF found >= 0 THEN found ELSE IndexFallback(enumerated, index)

\* the capture thread has not chosen its device yet
InitDevice ==
    /\ host_devices \in DeviceLists
    /\ enumeration_fails \in BOOLEAN
    /\ microphone_name \in NameQueries
    /\ microphone_index \in 0..MaxDevices
    /\ chosen_device = <<>>

\* a host with one device, selected by index 0
DeviceIdle ==
    /\ host_devices = <<<<"m">>>>
    /\ enumeration_fails = FALSE
    /\ microphone_name = NoName
    /\ microphone_index = 0
    /\ chosen_device = <<0>>

\* the capture thread calls choose_input_device
ChooseInputDevice ==
    /\ chosen_device = <<>>
    /\ chosen_device' =
          <<ChooseInputDeviceResult(enumeration_fails, host_devices,
                                    microphone_name, microphone_index)>>
    /\ UNCHANGED <<host_devices, enumeration_fails, microphone_name, microphone_index>>
    /\ UNCHANGED <<bufVars, segVars, capVars, lifeVars>>

(***************************************************************************)
(* Initial state: run_jarvis_with_config has created the empty buffer and  *)
(* spawned the capture thread; the controller is about to enter the Gate.  *)
(***************************************************************************)
InitBufState ==
    /\ audio_buffer = <<>>
    /\ lock_holder = "none"
    /\ poisoned = FALSE
    /\ cb_pc = "idle"
    /\ cb_data = <<>>
    /\ rd_pc = "idle"
    /\ frame_size = 0
    /\ rd_frame = <<>>
    /\ caller = "gate"
    /\ handed = 0
    /\ last_pushed = 0
    /\ pushed_since_take = 0
    /\ evictions = 0
    /\ dropped = 0
    /\ delivered = <<>>
    /\ takers = <<>>

\* frame_length_wwd and the frame length of the VAD come from the configuration
InitBuf ==
    /\ InitBufState
    /\ frame_lengths \in [wwd : 0..MaxFrameLen, vad : 0..MaxFrameLen]
    /\ CapIdle
    /\ DeviceIdle

\* the sample level at rest, for the frame-level specifications
BufIdle ==
    /\ InitBufState
    /\ frame_lengths = [wwd |-> 0, vad |-> 0]
    /\ CapIdle
    /\ DeviceIdle

(***************************************************************************)
(* Capture callback (start_audio_stream, the closure given to              *)
(* build_input_stream), native 16 kHz mono: the samples pass unchanged.    *)
(***************************************************************************)
\* the hardware hands a buffer of n fresh samples to the callback
CbInvoke ==
    /\ cb_pc = "idle"
    /\ \E n \in 1..MaxData :
        /\ handed + n <= MaxSamples
        /\ cb_data' = Range(handed + 1, handed + n)
        /\ handed' = handed + n
    /\ cb_pc' = "lock"
    /\ UNCHANGED <<audio_buffer, lock_holder, poisoned, rd_pc, frame_size, rd_frame,
                   caller, frame_lengths, last_pushed, pushed_since_take, evictions,
                   dropped, delivered, takers>>
    /\ UNCHANGED <<segVars, capVars, devVars, lifeVars>>

\* buffer.lock(): waits while the mutex is held; on a poisoned mutex the
\* callback returns at once and the samples of this invocation are lost
CbLock ==
    /\ cb_pc = "lock"
    /\ lock_holder = "none"
    /\ IF poisoned
         THEN /\ cb_pc' = "idle"
              /\ dropped' = dropped + Len(cb_data)
              /\ cb_data' = <<>>
              /\ UNCHANGED lock_holder
         ELSE /\ cb_pc' = "push"
              /\ lock_holder' = "callback"
              /\ UNCHANGED <<dropped, cb_data>>
    /\ UNCHANGED <<audio_buffer, poisoned, rd_pc, frame_size, rd_frame, caller,
                   frame_lengths, handed, last_pushed, pushed_since_take, evictions,
                   delivered, takers>>
    /\ UNCHANGED <<segVars, capVars, devVars, lifeVars>>

\* one iteration of `for sample in samples_iterator`
CbPush ==
    /\ cb_pc = "push"
    /\ cb_data # <<>>
    /\ audio_buffer' = PushSample(audio_buffer, Head(cb_data))
    /\ evictions' = IF Len(audio_buffer) >= Capacity THEN evictions + 1 ELSE evictions
    /\ last_pushed' = Head(cb_data)
    /\ pushed_since_take' = Min(pushed_since_take + 1, MaxSamples + 1)
    /\ cb_data' = Tail(cb_data)
    /\ UNCHANGED <<lock_holder, poisoned, cb_pc, rd_pc, frame_size, rd_frame, caller,
                   frame_lengths, handed, dropped, delivered, takers>>
    /\ UNCHANGED <<segVars, capVars, devVars, lifeVars>>

\* the loop is over: the guard is dropped and the callback returns
CbReturn ==
    /\ cb_pc = "push"
    /\ cb_data = <<>>
    /\ lock_holder' = "none"
    /\ cb_pc' = "idle"
    /\ UNCHANGED <<audio_buffer, poisoned, cb_data, rd_pc, frame_size, rd_frame, caller,
                   frame_lengths, handed, last_pushed, pushed_since_take, evictions,
                   dropped, delivered, takers>>
    /\ UNCHANGED <<segVars, capVars, devVars, lifeVars>>

(***************************************************************************)
(* next_audio_frame and its callers                                        *)
(***************************************************************************)
\* the frame length the running loop asks for
FrameLengthOf(c) == IF c = "gate" THEN frame_lengths.wwd ELSE frame_lengths.vad

\* wait_for_wakeword / record_command call next_audio_frame
CallTake ==
    /\ rd_pc = "idle"
    /\ caller \in {"gate", "record"}
    /\ Len(takers) < MaxTakes
    /\ frame_size' = FrameLengthOf(caller)
    /\ rd_pc' = "lock"
    /\ UNCHANGED <<audio_buffer, lock_holder, poisoned, cb_pc, cb_data, rd_frame, caller,
                   frame_lengths, handed, last_pushed, pushed_since_take, evictions,
                   dropped, delivered, takers>>
    /\ UNCHANGED <<segVars, capVars, devVars, lifeVars>>

\* mutant of LockResult: the guard of a poisoned mutex is used all the same
LockResultIgnoresPoison(is_poisoned) == "check"

\* `buffer.lock().map_err(..)?`: Err on a poisoned mutex, the guard otherwise
LockResult(is_poisoned) == IF is_poisoned THEN "err" ELSE "check"

\* mutant of HolderAfterCheck: the guard is kept over the sleep
HolderAfterCheckKeeps(available) == IF available THEN "none" ELSE "reader"

\* who holds the mutex after the length test: `return` drops the guard with
\* the frame, and drop(buf) drops it before the sleep
HolderAfterCheck(available) == "none"

\* buffer.lock().map_err(..)?: waits while the mutex is held; Err when poisoned
RdLock ==
    /\ rd_pc = "lock"
    /\ lock_holder = "none"
    /\ rd_pc' = LockResult(poisoned)
    /\ lock_holder' = IF LockResult(poisoned) = "err" THEN lock_holder ELSE "reader"
    /\ UNCHANGED <<audio_buffer, poisoned, cb_pc, cb_data, frame_size, rd_frame, caller,
                   frame_lengths, handed, last_pushed, pushed_since_take, evictions,
                   dropped, delivered, takers>>
    /\ UNCHANGED <<segVars, capVars, devVars, lifeVars>>

\* with the lock held: return the drained frame, or drop the guard and sleep
RdCheck ==
    /\ rd_pc = "check"
    /\ lock_holder' = HolderAfterCheck(FrameAvailable(audio_buffer, frame_size))
    /\ IF FrameAvailable(audio_buffer, frame_size)
         THEN /\ rd_frame' = Drained(audio_buffer, frame_size)
              /\ audio_buffer' = Remaining(audio_buffer, frame_size)
              /\ delivered' = delivered \o Drained(audio_buffer, frame_size)
              /\ takers' = Append(takers, caller)
              /\ pushed_since_take' = 0
              /\ rd_pc' = "ret"
         ELSE /\ rd_pc' = "sleep"
              /\ UNCHANGED <<rd_frame, audio_buffer, delivered, takers, pushed_since_take>>
    /\ UNCHANGED <<poisoned, cb_pc, cb_data, frame_size, caller, frame_lengths, handed,
                   last_pushed, evictions, dropped>>
    /\ UNCHANGED <<segVars, capVars, devVars, lifeVars>>

\* thread::sleep(10 ms) is over: next iteration of the polling loop
RdWake ==
    /\ rd_pc = "sleep"
    /\ rd_pc' = "lock"
    /\ UNCHANGED <<audio_buffer, lock_holder, poisoned, cb_pc, cb_data, frame_size,
                   rd_frame, caller, frame_lengths, handed, last_pushed,
                   pushed_since_take, evictions, dropped, delivered, takers>>
    /\ UNCHANGED <<segVars, capVars, devVars, lifeVars>>

\* what the calling loop does with a returned frame: the Gate keeps listening,
\* reports a wake match (the controller then runs the Segmenter) or fails on a
\* classifier error; the Segmenter keeps recording, closes the utterance (the
\* controller processes it and runs the Gate again) or fails
NextCaller(c) ==
    IF c = "gate" THEN {"gate", "record", "ended"} ELSE {"record", "gate", "ended"}

FrameHandled ==
    /\ rd_pc = "ret"
    /\ caller' \in NextCaller(caller)
    /\ rd_pc' = "idle"
    /\ UNCHANGED <<audio_buffer, lock_holder, poisoned, cb_pc, cb_data, frame_size,
                   rd_frame, frame_lengths, handed, last_pushed, pushed_since_take,
                   evictions, dropped, delivered, takers>>
    /\ UNCHANGED <<segVars, capVars, devVars, lifeVars>>

\* `?` on the Err of next_audio_frame: the loop ends and run_jarvis_with_config
\* returns the Err to start_jarvis
TakeFailed ==
    /\ rd_pc = "err"
    /\ caller' = "ended"
    /\ rd_pc' = "idle"
    /\ ctl_pc' = "failed"
    /\ outcome' = "error"
    /\ UNCHANGED <<audio_buffer, lock_holder, poisoned, cb_pc, cb_data, frame_size,
                   rd_frame, frame_lengths, handed, last_pushed, pushed_since_take,
                   evictions, dropped, delivered, takers>>
    /\ UNCHANGED <<config, vad_script, is_running, frame_count,
                   silence_threshold_frames, is_speaking, silent_frames, speech_frames,
                   speech_segment, recent_frames, frames_taken, frames_seen,
                   run_speech, run_silence, on_script, frames_after_stop>>
    /\ UNCHANGED <<turnVars, capVars, devVars, lifeVars>>

\* the loop sees is_running cleared before a take and returns; the capture
\* thread is not told and keeps pushing
LoopStopped ==
    /\ rd_pc = "idle"
    /\ caller \in {"gate", "record"}
    /\ ~is_running
    /\ caller' = "ended"
    /\ UNCHANGED <<audio_buffer, lock_holder, poisoned, cb_pc, cb_data, rd_pc, frame_size,
                   rd_frame, frame_lengths, handed, last_pushed, pushed_since_take,
                   evictions, dropped, delivered, takers>>
    /\ UNCHANGED <<segVars, capVars, devVars, lifeVars>>

\* a thread panics while it holds the buffer mutex: unwinding drops the guard
\* and poisons the mutex; the panicking thread is gone
HolderPanics ==
    /\ lock_holder # "none"
    /\ poisoned' = TRUE
    /\ lock_holder' = "none"
    /\ IF lock_holder = "callback"
         THEN /\ cb_pc' = "dead"
              /\ dropped' = dropped + Len(cb_data)
              /\ cb_data' = <<>>
              /\ UNCHANGED <<rd_pc, caller>>
         ELSE /\ rd_pc' = "idle"
              /\ caller' = "ended"
              /\ UNCHANGED <<cb_pc, cb_data, dropped>>
    /\ UNCHANGED <<audio_buffer, frame_size, rd_frame, frame_lengths, handed,
                   last_pushed, pushed_since_take, evictions, delivered, takers>>
    /\ UNCHANGED <<segVars, capVars, devVars, lifeVars>>

\* the device or the stream fails: the capture thread returns before the
\* stream plays, or the host stops calling the callback; nobody is told
StreamFails ==
    /\ cb_pc = "idle"
    /\ cb_pc' = "dead"
    /\ UNCHANGED <<audio_buffer, lock_holder, poisoned, cb_data, rd_pc, frame_size,
                   rd_frame, caller, frame_lengths, handed, last_pushed,
                   pushed_since_take, evictions, dropped, delivered, takers>>
    /\ UNCHANGED <<segVars, capVars, devVars, lifeVars>>

(***************************************************************************)
(* Frame level: bounds and program constants                               *)
(***************************************************************************)
\* frames one Gate / Segmenter call may take: when the VAD answers freely ...
MaxFreeFrames == 12
\* ... and when it follows a script
MaxFrames == 201
\* largest speech_trigger_frames of the freely answered configurations
MaxTrigger == 2
\* inputs of the threshold computation: seconds and frame durations (ms)
MaxSeconds == 13
MaxFrameMs == 30

\* get_text.rs: `frame_count % 100 == 0`
CheckInterval == 100
\* get_text.rs: `frames.max(5)`
MinSilenceFrames == 5

(***************************************************************************)
(* silence_threshold_frames (record_command): f32 arithmetic, computed as  *)
(* IEEE-754 single precision computes it.  A positive f32 is [m, s],       *)
(* standing for m * 2^(-s), with a significand m < 2^24.                   *)
(***************************************************************************)
RECURSIVE Pow2(_)
Pow2(n) == IF n <= 0 THEN 1 ELSE 2 * Pow2(n - 1)

RECURSIVE BitLen(_)
BitLen(n) == IF n = 0 THEN 0 ELSE 1 + BitLen(n \div 2)

\* round to nearest, ties to even: q plus a fraction of twice_rem / (2 * d)
RoundHalfEven(q, twice_rem, d) ==
    IF twice_rem > d \/ (twice_rem = d /\ q % 2 = 1) THEN q + 1 ELSE q

\* binary long division, until the quotient has 24 significant bits
RECURSIVE LongDiv(_, _, _, _)
LongDiv(q, r, d, s) ==
    IF q >= Pow2(23)
      THEN [q |-> q, r |-> r, s |-> s]
      ELSE LET bit == IF 2 * r >= d THEN 1 ELSE 0
           IN  LongDiv(2 * q + bit, 2 * r - bit * d, d, s + 1)

\* 1000.0 / (ms as f32), ms > 0
F32Div1000(ms) ==
    LET qr == LongDiv(1000 \div ms, 1000 % ms, ms, 0)
        m == RoundHalfEven(qr.q, 2 * qr.r, ms)
    IN  IF m = Pow2(24) THEN [m |-> Pow2(23), s |-> qr.s - 1] ELSE [m |-> m, s |-> qr.s]

\* (secs as f32) * x
F32MulInt(secs, x) ==
    LET p == secs * x.m
        t == BitLen(p) - 24
    IN  IF p < Pow2(24)
          THEN [m |-> p, s |-> x.s]
          ELSE [m |-> RoundHalfEven(p \div Pow2(t), 2 * (p % Pow2(t)), Pow2(t)),
                s |-> x.s - t]

\* x.ceil() as i32
F32Ceil(x) ==
    IF x.s >= 0 THEN (x.m + Pow2(x.s) - 1) \div Pow2(x.s) ELSE x.m * Pow2(0 - x.s)

SilenceThresholdFrames(secs, ms) ==
    Max(F32Ceil(F32MulInt(secs, F32Div1000(ms))), MinSilenceFrames)

\* frame_length_vad, in samples
FrameLengthVad(cfg) == (SAMPLE_RATE \div 1000) * cfg.frame_duration_ms

(***************************************************************************)
(* wait_for_wakeword / record_command (get_text.rs): the pieces            *)
(***************************************************************************)
\* mutant of CheckDue: the flag is looked at on entry only
CheckDueOnEntry(fc) == fc = 0

\* `frame_count % 100 == 0`
CheckDue(fc) == fc % CheckInterval = 0

\* mutant of SilentFramesAfter: a speech frame does not reset the count
SilentFramesNoReset(silent, is_speech) == IF is_speech THEN silent ELSE silent + 1

\* Triggered: silent_frames after a frame
SilentFramesAfter(silent, is_speech) == IF is_speech THEN 0 ELSE silent + 1

\* mutant of SilenceReached: the first silence frame closes the utterance
SilenceReachedAtOnce(silent, threshold) == silent >= 1

\* `silent_frames >= silence_threshold_frames`
SilenceReached(silent, threshold) == silent >= threshold

\* mutant of SpeechFramesAfter: a silence frame does not reset the count
SpeechFramesNoReset(speech, is_speech) == IF is_speech THEN speech + 1 ELSE speech

\* Armed: speech_frames after a frame
SpeechFramesAfter(speech, is_speech) == IF is_speech THEN speech + 1 ELSE 0

\* mutant of TriggerReached: the first speech frame triggers
TriggerReachedEarly(speech, trigger) == speech >= 1

\* `speech_frames >= speech_trigger_frames`
TriggerReached(speech, trigger) == speech >= trigger

\* mutant of PreRollPush: nothing is popped
PreRollPushUnbounded(recent, frame, trigger) == Append(recent, frame)

\* Armed, speech frame: push_back, then pop_front when longer than the trigger count
PreRollPush(recent, frame, trigger) ==
    LET r == Append(recent, frame)
    IN  IF Len(r) > trigger THEN Tail(r) ELSE r

\* mutant of Flushed: the pre-roll is lost at the trigger
FlushedNothing(segment, recent) == segment

\* the pre-roll is appended to the utterance at the trigger
Flushed(segment, recent) == segment \o recent

(***************************************************************************)
(* Frame level: scenarios                                                  *)
(***************************************************************************)
\* the bundled defaults (lib.rs): 30 ms frames, 1 s of silence, 8 trigger frames
DefaultConfig ==
    [frame_duration_ms |-> 30, silence_threshold_seconds |-> 1,
     speech_trigger_frames |-> 8]

\* configurations run with a freely answering VAD: thresholds of 5 and 6 frames
FreeConfigs ==
    [frame_duration_ms : {180, 200}, silence_threshold_seconds : {0, 1},
     speech_trigger_frames : 0..MaxTrigger]

Repeat(x, n) == [i \in 1..n |-> x]

\* 8 speech frames, then 40 silence frames
EndToEndScript == Repeat("speech", 8) \o Repeat("silence", 40)

Scenarios ==
    [config : FreeConfigs, vad_script : {<<>>}]
      \cup [config : {DefaultConfig},
            vad_script : {EndToEndScript, <<"speech">>, <<"silence">>}]
      \cup [config : {[DefaultConfig EXCEPT !.speech_trigger_frames = 1]},
            vad_script : {<<"speech", "silence", "silence">>}]

\* frames one call may take in the running scenario: few with the long
\* frames of FreeConfigs, enough to pass two flag checks otherwise
Budget == IF config \in FreeConfigs THEN MaxFreeFrames ELSE MaxFrames

\* what the VAD may answer for the next frame of the call
VadAnswers ==
    IF vad_script = <<>>
      THEN {"speech", "silence"}
      ELSE {vad_script[(frame_count % Len(vad_script)) + 1]}

(***************************************************************************)
(* Frame level: the session thread (run_jarvis.rs, get_text.rs)            *)
(***************************************************************************)
\* lib.rs: enum JarvisStateEnum
Phases == {"Idle", "Loading", "WakeListening", "Recording", "Processing", "Speaking"}

\* emit_state: the session thread sends a "jarvis-state-changed" event
Emit(p) ==
    /\ prev_emitted' = last_emitted
    /\ last_emitted' = p
    /\ phase' = p
    /\ phase_writer' = "controller"

\* a step of the session thread that sends no such event
NoEmit == UNCHANGED <<prev_emitted, last_emitted, phase, phase_writer>>

\* mutant of ReportsOnReturn: a failed session is not reported
ReportsOnReturnNever(is_err) == FALSE

\* start_jarvis: `if let Err(e) = run_jarvis_with_config(..)` reports and resets
ReportsOnReturn(is_err) == is_err

\* mutant of PhaseAfterRecord: the controller goes straight to Speaking
PhaseAfterRecordSkips(is_empty) == IF is_empty THEN "WakeListening" ELSE "Speaking"

\* main loop: the phase emitted once record_command has returned its samples
PhaseAfterRecord(is_empty) == IF is_empty THEN "WakeListening" ELSE "Processing"

\* mutant of CancelResult: the samples recorded so far are returned
CancelResultPartial(segment) == [ok |-> TRUE, samples |-> segment]

\* record_command: `return Err(anyhow!("Recording stopped"))`
CancelResult(segment) == [ok |-> FALSE, samples |-> <<>>]

\* what porcupine.process answers with Ok
KeywordIndices == (-1)..MaxKeyword

\* mutant of IsMatch: only the first keyword counts
IsMatchFirstOnly(index) == index = 0

\* wait_for_wakeword: `Ok(keyword_index) if keyword_index >= 0`
IsMatch(index) == index >= 0

\* `let min_samples = (SAMPLE_RATE * 12) / 10`
MinSamples == (SAMPLE_RATE * 12) \div 10

\* mutant of ZeroPadding: one second is taken as the minimum
ZeroPaddingOneSecond(len) == IF len < SAMPLE_RATE THEN SAMPLE_RATE - len ELSE 0

\* the zeros appended to an utterance of len samples
ZeroPadding(len) == IF len < MinSamples THEN MinSamples - len ELSE 0

\* audio_for_transcribe: the clone of the utterance (its frames, each of
\* frame_len samples) and the zeros that follow it
AudioForTranscribe(segment, frame_len) ==
    [samples |-> segment, zeros |-> ZeroPadding(Len(segment) * frame_len)]

NoAudio == [samples |-> <<>>, zeros |-> 0]

\* mutant of StopAccepted: a stop is accepted whatever the flag says
StopAcceptedAlways(running) == TRUE

\* cmd_stop_jarvis: `if state.is_running.load(..)`
StopAccepted(running) == running

\* mutant of RunningAfterThread: the flag is left as it is
RunningAfterThreadKept(running) == running

\* the last statement of the session thread: is_running_clone.store(false, ..)
RunningAfterThread(running) == FALSE

\* mutant of StartRefused: a start is never refused
StartRefusedNever(has_handle, finished) == FALSE

\* cmd_start_jarvis: `if let Some(handle) .. if !handle.is_finished()`
StartRefused(has_handle, finished) == has_handle /\ ~finished

\* mutant of FreshLocals: the utterance of the attempt before is kept
FreshLocalsKeepSegment ==
    /\ is_speaking' = FALSE
    /\ silent_frames' = 0
    /\ speech_frames' = 0
    /\ speech_segment' = speech_segment
    /\ recent_frames' = <<>>

\* the locals of record_command as `let mut` leaves them
FreshLocals ==
    /\ is_speaking' = FALSE
    /\ silent_frames' = 0
    /\ speech_frames' = 0
    /\ speech_segment' = <<>>
    /\ recent_frames' = <<>>

FreshHistory ==
    /\ frames_taken' = 0
    /\ frames_seen' = 0
    /\ run_speech' = 0
    /\ run_silence' = 0
    /\ on_script' = TRUE
    /\ frames_after_stop' = 0

\* cmd_start_jarvis has set the flag and spawned the thread running start_jarvis
InitSession ==
    /\ is_running = TRUE
    /\ ctl_pc = "start"
    /\ frame_count = 0
    /\ silence_threshold_frames = 0
    /\ is_speaking = FALSE
    /\ silent_frames = 0
    /\ speech_frames = 0
    /\ speech_segment = <<>>
    /\ recent_frames = <<>>
    /\ outcome = "none"
    /\ frames_taken = 0
    /\ frames_seen = 0
    /\ run_speech = 0
    /\ run_silence = 0
    /\ on_script = TRUE
    /\ frames_after_stop = 0
    /\ phase = "Idle"
    /\ phase_writer = "none"
    /\ last_emitted = "Idle"
    /\ prev_emitted = "none"
    /\ failure_reported = FALSE
    /\ last_call = "none"
    /\ result_samples = <<>>
    /\ stt_called = FALSE
    /\ keyword_index = <<>>
    /\ stt_input = NoAudio
    /\ handle = "some"
    /\ capture_streams = 0
    /\ start_error = FALSE
    /\ starts = 1
    /\ orphans = 0
    /\ stop_error = FALSE
    /\ stops = 0

\* run_jarvis_with_config, first statement: emit Loading
SessionStart ==
    /\ ctl_pc = "start"
    /\ Emit("Loading")
    /\ ctl_pc' = "loading"
    /\ UNCHANGED <<config, vad_script, is_running, frame_count,
                   silence_threshold_frames, is_speaking, silent_frames, speech_frames,
                   speech_segment, recent_frames, outcome, frames_taken, frames_seen,
                   run_speech, run_silence, on_script, frames_after_stop>>
    /\ UNCHANGED <<failure_reported, last_call, result_samples, stt_called>>
    /\ UNCHANGED <<bufVars, capVars, devVars, lifeVars>>

\* run_jarvis_with_config up to the main loop: any of the set-up steps may
\* fail (`?`, `return Err`); is_running is not read; the last of them creates
\* the buffer and spawns the capture thread; then emit WakeListening
LoadAssets ==
    /\ ctl_pc = "loading"
    /\ \/ ctl_pc' = "failed" /\ NoEmit /\ UNCHANGED capture_streams
       \/ /\ ctl_pc' = "loop_top"
          /\ capture_streams' = capture_streams + 1
          /\ Emit("WakeListening")
    /\ UNCHANGED <<config, vad_script, is_running, frame_count,
                   silence_threshold_frames, is_speaking, silent_frames, speech_frames,
                   speech_segment, recent_frames, outcome, frames_taken, frames_seen,
                   run_speech, run_silence, on_script, frames_after_stop>>
    /\ UNCHANGED <<failure_reported, last_call, result_samples, stt_called>>
    /\ UNCHANGED <<keyword_index, stt_input, handle, start_error, starts, orphans>>
    /\ UNCHANGED stopVars
    /\ UNCHANGED <<bufVars, capVars, devVars>>

\* `while is_running.load(..)`: emit WakeListening and enter wait_for_wakeword,
\* or leave the loop
MainLoopTop ==
    /\ ctl_pc = "loop_top"
    /\ IF is_running
         THEN /\ ctl_pc' = "gate_check"
              /\ outcome' = "none"
              /\ last_call' = "gate"
              /\ Emit("WakeListening")
         ELSE /\ ctl_pc' = "exit"
              /\ NoEmit
              /\ UNCHANGED <<outcome, last_call>>
    /\ frame_count' = 0
    /\ FreshLocals
    /\ FreshHistory
    /\ UNCHANGED <<config, vad_script, is_running, silence_threshold_frames>>
    /\ UNCHANGED <<failure_reported, result_samples, stt_called>>
    /\ UNCHANGED <<bufVars, capVars, devVars, lifeVars>>

\* wait_for_wakeword, top of the loop: the flag is read every 100 frames
GateCheck ==
    /\ ctl_pc = "gate_check"
    /\ IF CheckDue(frame_count) /\ ~is_running
         THEN outcome' = "stopped" /\ ctl_pc' = "failed"
         ELSE ctl_pc' = "gate_take" /\ UNCHANGED outcome
    /\ UNCHANGED <<config, vad_script, is_running, frame_count,
                   silence_threshold_frames, is_speaking, silent_frames, speech_frames,
                   speech_segment, recent_frames, frames_taken, frames_seen, run_speech,
                   run_silence, on_script, frames_after_stop>>
    /\ UNCHANGED turnVars
    /\ UNCHANGED <<bufVars, capVars, devVars, lifeVars>>

\* frames_after_stop once next_audio_frame has returned one more frame
AfterStopCount == IF is_running THEN frames_after_stop ELSE frames_after_stop + 1

\* wait_for_wakeword: next_audio_frame, then porcupine.process
GateTake ==
    /\ ctl_pc = "gate_take"
    /\ frame_count < Budget
    /\ \E r \in {"index", "classifier_error", "buffer_error"} :
       \E index \in IF r = "index" THEN KeywordIndices ELSE {-1} :
        /\ IF r = "buffer_error"
             THEN UNCHANGED <<frames_taken, frames_after_stop>>
             ELSE /\ frames_taken' = frames_taken + 1
                  /\ frames_after_stop' = AfterStopCount
        /\ keyword_index' = IF r = "index" THEN <<index>> ELSE <<>>
        /\ CASE r = "index" /\ IsMatch(index) ->
                  outcome' = "wake" /\ ctl_pc' = "woke" /\ UNCHANGED frame_count
             [] r = "index" /\ ~IsMatch(index) ->
                  frame_count' = frame_count + 1 /\ ctl_pc' = "gate_check"
                    /\ UNCHANGED outcome
             [] OTHER ->
                  outcome' = "error" /\ ctl_pc' = "failed" /\ UNCHANGED frame_count
    /\ UNCHANGED <<config, vad_script, is_running, silence_threshold_frames, is_speaking,
                   silent_frames, speech_frames, speech_segment, recent_frames,
                   frames_seen, run_speech, run_silence, on_script>>
    /\ UNCHANGED turnVars
    /\ UNCHANGED <<stt_input, threadVars, stopVars>>
    /\ UNCHANGED <<bufVars, capVars, devVars>>

\* main loop after the wake word: beep, `if !is_running { break }`, emit Recording
AfterWake ==
    /\ ctl_pc = "woke"
    /\ IF is_running
         THEN ctl_pc' = "rec_enter" /\ Emit("Recording")
         ELSE ctl_pc' = "exit" /\ NoEmit
    /\ keyword_index' = <<>>
    /\ UNCHANGED <<config, vad_script, is_running, frame_count,
                   silence_threshold_frames, is_speaking, silent_frames, speech_frames,
                   speech_segment, recent_frames, outcome, frames_taken, frames_seen,
                   run_speech, run_silence, on_script, frames_after_stop>>
    /\ UNCHANGED <<failure_reported, last_call, result_samples, stt_called>>
    /\ UNCHANGED <<stt_input, threadVars, stopVars>>
    /\ UNCHANGED <<bufVars, capVars, devVars>>

\* record_command, up to its loop: the threshold and the fresh locals
RecordCommandEnter ==
    /\ ctl_pc = "rec_enter"
    /\ silence_threshold_frames' =
          SilenceThresholdFrames(config.silence_threshold_seconds,
                                 config.frame_duration_ms)
    /\ frame_count' = 0
    /\ FreshLocals
    /\ FreshHistory
    /\ outcome' = "none"
    /\ ctl_pc' = "rec_check"
    /\ last_call' = "record"
    /\ result_samples' = <<>>
    /\ stt_called' = FALSE
    /\ stt_input' = NoAudio
    /\ NoEmit
    /\ UNCHANGED <<config, vad_script, is_running, failure_reported>>
    /\ UNCHANGED <<keyword_index, threadVars, stopVars>>
    /\ UNCHANGED <<bufVars, capVars, devVars>>

\* record_command, top of the loop: the flag is read every 100 frames
RecCheck ==
    /\ ctl_pc = "rec_check"
    /\ IF CheckDue(frame_count) /\ ~is_running
         THEN LET r == CancelResult(speech_segment)
              IN  /\ outcome' = "stopped"
                  /\ result_samples' = r.samples
                  /\ ctl_pc' = IF r.ok THEN "process" ELSE "failed"
         ELSE ctl_pc' = "rec_take" /\ UNCHANGED <<outcome, result_samples>>
    /\ UNCHANGED <<config, vad_script, is_running, frame_count,
                   silence_threshold_frames, is_speaking, silent_frames, speech_frames,
                   speech_segment, recent_frames, frames_taken, frames_seen, run_speech,
                   run_silence, on_script, frames_after_stop>>
    /\ NoEmit
    /\ UNCHANGED <<failure_reported, last_call, stt_called>>
    /\ UNCHANGED <<bufVars, capVars, devVars, lifeVars>>

\* record_command: next_audio_frame, the VAD, then the Armed / Triggered logic
RecTake ==
    /\ ctl_pc = "rec_take"
    /\ frame_count < Budget
    /\ \E v \in VadAnswers \cup {"vad_error", "buffer_error"} :
        IF v \in {"vad_error", "buffer_error"}
          THEN /\ outcome' = "error"
               /\ ctl_pc' = "failed"
               /\ IF v = "vad_error"
                    THEN /\ frames_taken' = frames_taken + 1
                         /\ frames_after_stop' = AfterStopCount
                    ELSE UNCHANGED <<frames_taken, frames_after_stop>>
               /\ UNCHANGED <<frame_count, is_speaking, silent_frames, speech_frames,
                              speech_segment, recent_frames, frames_seen, run_speech,
                              run_silence, on_script, result_samples>>
          ELSE LET is_speech == v = "speech"
                   frame == frame_count + 1
                   trigger == config.speech_trigger_frames
                   silent == SilentFramesAfter(silent_frames, is_speech)
                   speech == SpeechFramesAfter(speech_frames, is_speech)
                   pre_roll == PreRollPush(recent_frames, frame, trigger)
                   closes == /\ is_speaking
                             /\ ~is_speech
                             /\ SilenceReached(silent, silence_threshold_frames)
                   triggers == /\ ~is_speaking
                               /\ is_speech
                               /\ TriggerReached(speech, trigger)
               IN  /\ IF is_speaking
                        THEN /\ speech_segment' = Append(speech_segment, frame)
                             /\ silent_frames' = silent
                             /\ UNCHANGED <<is_speaking, speech_frames, recent_frames>>
                        ELSE IF triggers
                        THEN /\ is_speaking' = TRUE
                             /\ speech_frames' = 0
                             /\ silent_frames' = 0
                             /\ speech_segment' = Flushed(speech_segment, pre_roll)
                             /\ recent_frames' = <<>>
                        ELSE /\ speech_frames' = speech
                             /\ recent_frames' = IF is_speech THEN pre_roll ELSE <<>>
                             /\ UNCHANGED <<is_speaking, silent_frames, speech_segment>>
                   /\ IF closes
                        THEN /\ outcome' = "utterance"
                             /\ ctl_pc' = "process"
                             /\ result_samples' = speech_segment'
                             /\ UNCHANGED frame_count
                        ELSE /\ frame_count' = frame_count + 1
                             /\ ctl_pc' = "rec_check"
                             /\ UNCHANGED <<outcome, result_samples>>
                   /\ frames_taken' = frames_taken + 1
                   /\ frames_seen' = frames_seen + 1
                   /\ run_speech' = IF is_speech THEN run_speech + 1 ELSE 0
                   /\ run_silence' = IF is_speech THEN 0 ELSE run_silence + 1
                   /\ on_script' = (on_script /\ (is_speech <=> frame <= trigger))
                   /\ frames_after_stop' = AfterStopCount
    /\ UNCHANGED <<config, vad_script, is_running, silence_threshold_frames>>
    /\ NoEmit
    /\ UNCHANGED <<failure_reported, last_call, stt_called>>
    /\ UNCHANGED <<bufVars, capVars, devVars, lifeVars>>

\* main loop after record_command: an empty utterance goes back to listening,
\* any other is announced as Processing
Process ==
    /\ ctl_pc = "process"
    /\ LET is_empty == Len(result_samples) * FrameLengthVad(config) = 0
       IN  /\ Emit(PhaseAfterRecord(is_empty))
           /\ ctl_pc' = IF is_empty THEN "loop_top" ELSE "processing"
    /\ UNCHANGED <<config, vad_script, is_running, frame_count,
                   silence_threshold_frames, is_speaking, silent_frames, speech_frames,
                   speech_segment, recent_frames, outcome, frames_taken, frames_seen,
                   run_speech, run_silence, on_script, frames_after_stop>>
    /\ UNCHANGED <<failure_reported, last_call, result_samples, stt_called>>
    /\ UNCHANGED <<bufVars, capVars, devVars, lifeVars>>

\* main loop, a) to e): pad the utterance and transcribe, then either fail (transcribe, query_gemini),
\* go back to listening with a WakeListening event (nothing understood, a key
\* is missing, nothing to say), `continue` without one (a built-in command was
\* run), or announce Speaking
ProcessCommand ==
    /\ ctl_pc = "processing"
    /\ stt_input' = AudioForTranscribe(result_samples, FrameLengthVad(config))
    /\ stt_called' = TRUE
    /\ \/ ctl_pc' = "failed" /\ NoEmit
       \/ ctl_pc' = "loop_top" /\ Emit("WakeListening")
       \/ ctl_pc' = "loop_top" /\ NoEmit
       \/ ctl_pc' = "speaking" /\ Emit("Speaking")
    /\ UNCHANGED <<config, vad_script, is_running, frame_count,
                   silence_threshold_frames, is_speaking, silent_frames, speech_frames,
                   speech_segment, recent_frames, outcome, frames_taken, frames_seen,
                   run_speech, run_silence, on_script, frames_after_stop>>
    /\ UNCHANGED <<failure_reported, last_call, result_samples>>
    /\ UNCHANGED <<keyword_index, threadVars, stopVars>>
    /\ UNCHANGED <<bufVars, capVars, devVars>>

\* main loop, e) and f): fetch and play the answer, which may fail; then emit
\* WakeListening
SpeakResponse ==
    /\ ctl_pc = "speaking"
    /\ \/ ctl_pc' = "failed" /\ NoEmit
       \/ ctl_pc' = "loop_top" /\ Emit("WakeListening")
    /\ UNCHANGED <<config, vad_script, is_running, frame_count,
                   silence_threshold_frames, is_speaking, silent_frames, speech_frames,
                   speech_segment, recent_frames, outcome, frames_taken, frames_seen,
                   run_speech, run_silence, on_script, frames_after_stop>>
    /\ UNCHANGED <<failure_reported, last_call, result_samples, stt_called>>
    /\ UNCHANGED <<bufVars, capVars, devVars, lifeVars>>

\* start_jarvis: run_jarvis_with_config has returned; on Err the failure
\* message and Idle are emitted; the flag is cleared
SessionExit ==
    /\ ctl_pc \in {"exit", "failed"}
    /\ IF ReportsOnReturn(ctl_pc = "failed")
         THEN failure_reported' = TRUE /\ Emit("Idle")
         ELSE UNCHANGED failure_reported /\ NoEmit
    /\ is_running' = RunningAfterThread(is_running)
    /\ ctl_pc' = "done"
    /\ UNCHANGED <<config, vad_script, frame_count, silence_threshold_frames,
                   is_speaking, silent_frames, speech_frames, speech_segment,
                   recent_frames, outcome, frames_taken, frames_seen, run_speech,
                   run_silence, on_script, frames_after_stop>>
    /\ UNCHANGED <<last_call, result_samples, stt_called>>
    /\ UNCHANGED <<bufVars, capVars, devVars, lifeVars>>

\* cmd_stop_jarvis (lib.rs), when the flag is set
StopRequested ==
    /\ StopAccepted(is_running)
    /\ stops < MaxStops
    /\ stops' = stops + 1
    /\ stop_error' = FALSE
    /\ is_running' = FALSE
    /\ UNCHANGED <<config, vad_script, ctl_pc, frame_count, silence_threshold_frames,
                   is_speaking, silent_frames, speech_frames, speech_segment,
                   recent_frames, outcome, frames_taken, frames_seen, run_speech,
                   run_silence, on_script, frames_after_stop>>
    /\ UNCHANGED turnVars
    /\ UNCHANGED <<keyword_index, stt_input, threadVars>>
    /\ UNCHANGED <<bufVars, capVars, devVars>>

\* cmd_stop_jarvis (lib.rs), when the flag is not set: Err, nothing changes
StopRefused ==
    /\ ~StopAccepted(is_running)
    /\ stops < MaxStops
    /\ stops' = stops + 1
    /\ stop_error' = TRUE
    /\ UNCHANGED <<keyword_index, stt_input, threadVars>>
    /\ UNCHANGED <<bufVars, segVars, capVars, devVars>>

\* cmd_get_jarvis_state: `Ok(JarvisStateEnum::Idle)`, whatever the session does
CmdGetJarvisState == "Idle"

\* cmd_get_jarvis_status (lib.rs)
CmdGetJarvisStatus == is_running

\* cmd_start_jarvis (lib.rs), under the handle mutex: refuse while the thread
\* of the stored handle has not finished; else set the flag, spawn the session
\* thread and store its handle
CmdStartJarvis ==
    /\ starts < MaxStarts
    /\ starts' = starts + 1
    /\ IF StartRefused(handle = "some", ctl_pc = "done")
         THEN /\ start_error' = TRUE
              /\ UNCHANGED <<is_running, ctl_pc, frame_count, silence_threshold_frames,
                             is_speaking, silent_frames, speech_frames, speech_segment,
                             recent_frames, outcome, frames_taken, frames_seen,
                             run_speech, run_silence, on_script, frames_after_stop,
                             failure_reported, last_call, result_samples, stt_called,
                             keyword_index, stt_input, handle, orphans>>
         ELSE /\ start_error' = FALSE
              /\ is_running' = TRUE
              /\ handle' = "some"
              /\ orphans' = IF handle = "some" /\ ctl_pc # "done"
                               THEN orphans + 1 ELSE orphans
              /\ ctl_pc' = "start"
              /\ frame_count' = 0
              /\ silence_threshold_frames' = 0
              /\ FreshLocals
              /\ FreshHistory
              /\ outcome' = "none"
              /\ failure_reported' = FALSE
              /\ last_call' = "none"
              /\ result_samples' = <<>>
              /\ stt_called' = FALSE
              /\ keyword_index' = <<>>
              /\ stt_input' = NoAudio
    /\ NoEmit
    /\ UNCHANGED <<config, vad_script, capture_streams, stopVars>>
    /\ UNCHANGED <<bufVars, capVars, devVars>>

\* the spawned closure when cmd_load_config fails: start_jarvis is not
\* called, the flag is cleared and the thread ends
ConfigLoadFails ==
    /\ ctl_pc = "start"
    /\ ctl_pc' = "done"
    /\ is_running' = RunningAfterThread(is_running)
    /\ NoEmit
    /\ UNCHANGED <<config, vad_script, frame_count, silence_threshold_frames,
                   is_speaking, silent_frames, speech_frames, speech_segment,
                   recent_frames, outcome, frames_taken, frames_seen, run_speech,
                   run_silence, on_script, frames_after_stop>>
    /\ UNCHANGED <<failure_reported, last_call, result_samples, stt_called>>
    /\ UNCHANGED <<bufVars, capVars, devVars, lifeVars>>

\* a capture thread returns before its stream plays (no device, no
\* configuration, build or play error); past that point it sleeps for ever
CaptureThreadReturns ==
    /\ capture_streams > 0
    /\ capture_streams' = capture_streams - 1
    /\ UNCHANGED <<keyword_index, stt_input, handle, start_error, starts, orphans>>
    /\ UNCHANGED stopVars
    /\ UNCHANGED <<bufVars, segVars, capVars, devVars>>

\* cmd_emit_state_change (lib.rs): any front-end caller emits a phase event
ObserverEmitsState ==
    /\ \E s \in Phases : phase' = s
    /\ phase_writer' = "observer"
    /\ UNCHANGED <<config, vad_script, is_running, ctl_pc, frame_count,
                   silence_threshold_frames, is_speaking, silent_frames, speech_frames,
                   speech_segment, recent_frames, outcome, frames_taken, frames_seen,
                   run_speech, run_silence, on_script, frames_after_stop>>
    /\ UNCHANGED <<last_emitted, prev_emitted, failure_reported, last_call,
                   result_samples, stt_called>>
    /\ UNCHANGED <<bufVars, capVars, devVars, lifeVars>>

(***************************************************************************)
(* Specifications                                                          *)
(***************************************************************************)
\* sample level: the session thread is only seen through its calls of
\* next_audio_frame
Init ==
    /\ InitBuf
    /\ InitSession
    /\ config = DefaultConfig
    /\ vad_script = <<>>


Next ==
    \/ CbInvoke
    \/ CbLock
    \/ CbPush
    \/ CbReturn
    \/ CallTake
    \/ RdLock
    \/ RdCheck
    \/ RdWake
    \/ FrameHandled
    \/ TakeFailed
    \/ LoopStopped
    \/ HolderPanics
    \/ StreamFails
    \/ StopRequested
    \/ SessionExit

Spec == Init /\ [][Next]_vars

\* the steps of the session thread at the sample level
SessionThreadStep ==
    \/ CallTake
    \/ RdLock
    \/ RdCheck
    \/ RdWake
    \/ FrameHandled
    \/ TakeFailed
    \/ LoopStopped
    \/ SessionExit

\* the scheduler lets the session thread run whenever it can take a step
SpecFair == Spec /\ WF_vars(SessionThreadStep)

(***************************************************************************)
(* Start of the Capture Stream, step by step: start_audio_stream spawns    *)
(* the capture thread, sleeps 500 ms and returns; the thread chooses its   *)
(* device and builds the stream on its own.                                *)
(***************************************************************************)
\* mutant of StartAudioStreamResult: a failed capture thread is reported
StartAudioStreamReportsFailure(thread_failed) == IF thread_failed THEN "err" ELSE "ok"

\* the value start_audio_stream returns: `Ok(())`, whatever the thread did
StartAudioStreamResult(thread_failed) == "ok"

\* run_jarvis_with_config from the set-up to the call of start_audio_stream:
\* an earlier step fails, or the buffer is created and the thread spawned
StartStream ==
    /\ ctl_pc = "loading"
    /\ \/ /\ ctl_pc' = "failed"
          /\ UNCHANGED <<capture_streams, cb_pc>>
       \/ /\ ctl_pc' = "stream_wait"
          /\ cb_pc = "unstarted"
          /\ cb_pc' = "spawned"
          /\ capture_streams' = capture_streams + 1
    /\ NoEmit
    /\ UNCHANGED <<config, vad_script, is_running, frame_count,
                   silence_threshold_frames, is_speaking, silent_frames, speech_frames,
                   speech_segment, recent_frames, outcome, frames_taken, frames_seen,
                   run_speech, run_silence, on_script, frames_after_stop>>
    /\ UNCHANGED <<failure_reported, last_call, result_samples, stt_called>>
    /\ UNCHANGED <<keyword_index, stt_input, handle, start_error, starts, orphans>>
    /\ UNCHANGED stopVars
    /\ UNCHANGED <<audio_buffer, lock_holder, poisoned, cb_data, rd_pc, frame_size,
                   rd_frame, caller, frame_lengths, handed, last_pushed,
                   pushed_since_take, evictions, dropped, delivered, takers>>
    /\ UNCHANGED <<capVars, devVars>>

\* the capture thread, first step: choose_input_device
CaptureChoosesDevice ==
    /\ cb_pc = "spawned"
    /\ ChooseInputDevice

\* the capture thread, after the choice: without a device it returns; with
\* one, the configuration, build_input_stream or play fails and it returns,
\* or the stream plays and the callback starts to be called
CaptureBuild ==
    /\ cb_pc = "spawned"
    /\ chosen_device # <<>>
    /\ IF chosen_device = <<-1>>
         THEN cb_pc' = "dead"
         ELSE cb_pc' \in {"dead", "idle"}
    /\ UNCHANGED <<audio_buffer, lock_holder, poisoned, cb_data, rd_pc, frame_size,
                   rd_frame, caller, frame_lengths, handed, last_pushed,
                   pushed_since_take, evictions, dropped, delivered, takers>>
    /\ UNCHANGED <<segVars, capVars, devVars, lifeVars>>

\* the 500 ms are over: start_audio_stream returns, `?` passes an Err on,
\* otherwise the AppContext is built and WakeListening emitted
StreamStarted ==
    /\ ctl_pc = "stream_wait"
    /\ IF StartAudioStreamResult(cb_pc = "dead") = "ok"
         THEN ctl_pc' = "loop_top" /\ Emit("WakeListening")
         ELSE ctl_pc' = "failed" /\ NoEmit
    /\ UNCHANGED <<config, vad_script, is_running, frame_count,
                   silence_threshold_frames, is_speaking, silent_frames, speech_frames,
                   speech_segment, recent_frames, outcome, frames_taken, frames_seen,
                   run_speech, run_silence, on_script, frames_after_stop>>
    /\ UNCHANGED <<failure_reported, last_call, result_samples, stt_called>>
    /\ UNCHANGED <<bufVars, capVars, devVars, lifeVars>>

\* wait_for_wakeword asks for its first frame
GateFirstTake ==
    /\ ctl_pc = "gate_take"
    /\ frame_count = 0
    /\ takers = <<>>
    /\ caller = "gate"
    /\ CallTake

\* a session about to start, on a host with no device or with one; the Gate
\* frame holds at least one sample
InitStart ==
    /\ audio_buffer = <<>>
    /\ lock_holder = "none"
    /\ poisoned = FALSE
    /\ cb_pc = "unstarted"
    /\ cb_data = <<>>
    /\ rd_pc = "idle"
    /\ frame_size = 0
    /\ rd_frame = <<>>
    /\ caller = "gate"
    /\ handed = 0
    /\ last_pushed = 0
    /\ pushed_since_take = 0
    /\ evictions = 0
    /\ dropped = 0
    /\ delivered = <<>>
    /\ takers = <<>>
    /\ frame_lengths \in [wwd : 1..MaxFrameLen, vad : {1}]
    /\ CapIdle
    /\ host_devices \in {<<>>, <<<<"m">>>>}
    /\ enumeration_fails \in BOOLEAN
    /\ microphone_name = NoName
    /\ microphone_index = 0
    /\ chosen_device = <<>>
    /\ InitSession
    /\ config = DefaultConfig
    /\ vad_script = <<>>

NextStart ==
    \/ SessionStart
    \/ StartStream
    \/ CaptureChoosesDevice
    \/ CaptureBuild
    \/ StreamStarted
    \/ MainLoopTop
    \/ GateCheck
    \/ GateFirstTake
    \/ RdLock
    \/ RdCheck
    \/ RdWake
    \/ FrameHandled
    \/ CbInvoke
    \/ CbLock
    \/ CbPush
    \/ CbReturn
    \/ StopRequested
    \/ SessionExit

SpecStart == InitStart /\ [][NextStart]_vars

\* sample level with a frame length the buffer cannot hold: frame_length_wwd
\* and frame_duration_ms are taken from the configuration unchecked
InitOversize ==
    /\ InitBufState
    /\ frame_lengths \in [wwd : {1, Capacity + 1}, vad : {1, Capacity + 1}]
    /\ CapIdle
    /\ DeviceIdle
    /\ InitSession
    /\ config = DefaultConfig
    /\ vad_script = <<>>

SpecOversize == InitOversize /\ [][Next]_vars

\* frame level: a started session, in each scenario
InitSeg ==
    /\ BufIdle
    /\ InitSession
    /\ \E sc \in Scenarios :
          /\ config = sc.config
          /\ vad_script = sc.vad_script

NextSeg ==
    \/ SessionStart
    \/ LoadAssets
    \/ MainLoopTop
    \/ GateCheck
    \/ GateTake
    \/ AfterWake
    \/ RecordCommandEnter
    \/ RecCheck
    \/ RecTake
    \/ Process
    \/ ProcessCommand
    \/ SpeakResponse
    \/ SessionExit
    \/ StopRequested

SpecSeg == InitSeg /\ [][NextSeg]_vars

\* the session thread next to a front end that may invoke cmd_stop_jarvis and
\* cmd_emit_state_change at any time; one speech frame triggers, five silence
\* frames close the utterance
TurnScript == <<"speech">> \o Repeat("silence", MinSilenceFrames)

TurnScenarios ==
    {[config |-> [frame_duration_ms |-> 200, silence_threshold_seconds |-> 0,
                  speech_trigger_frames |-> 1],
      vad_script |-> TurnScript]}

InitTurn ==
    /\ BufIdle
    /\ InitSession
    /\ \E sc \in TurnScenarios :
          /\ config = sc.config
          /\ vad_script = sc.vad_script

NextTurn ==
    \/ SessionStart
    \/ LoadAssets
    \/ MainLoopTop
    \/ GateCheck
    \/ GateTake
    \/ AfterWake
    \/ RecordCommandEnter
    \/ RecCheck
    \/ RecTake
    \/ Process
    \/ ProcessCommand
    \/ SpeakResponse
    \/ SessionExit
    \/ StopRequested
    \/ ObserverEmitsState

SpecTurn == InitTurn /\ [][NextTurn]_vars

\* the threshold computation alone: record_command is entered under every
\* frame duration and silence threshold of the bounded ranges
InitThreshold ==
    /\ BufIdle
    /\ is_running = TRUE
    /\ ctl_pc = "rec_enter"
    /\ frame_count = 0
    /\ silence_threshold_frames = 0
    /\ is_speaking = FALSE
    /\ silent_frames = 0
    /\ speech_frames = 0
    /\ speech_segment = <<>>
    /\ recent_frames = <<>>
    /\ outcome = "wake"
    /\ frames_taken = 0
    /\ frames_seen = 0
    /\ run_speech = 0
    /\ run_silence = 0
    /\ on_script = TRUE
    /\ frames_after_stop = 0
    /\ phase = "Recording"
    /\ phase_writer = "controller"
    /\ last_emitted = "Recording"
    /\ prev_emitted = "WakeListening"
    /\ failure_reported = FALSE
    /\ last_call = "gate"
    /\ result_samples = <<>>
    /\ stt_called = FALSE
    /\ keyword_index = <<>>
    /\ stt_input = NoAudio
    /\ handle = "some"
    /\ capture_streams = 1
    /\ start_error = FALSE
    /\ starts = 1
    /\ orphans = 0
    /\ stop_error = FALSE
    /\ stops = 0
    /\ config \in [frame_duration_ms : 1..MaxFrameMs,
                   silence_threshold_seconds : 0..MaxSeconds,
                   speech_trigger_frames : {DefaultConfig.speech_trigger_frames}]
    /\ vad_script = <<>>

SpecThreshold == InitThreshold /\ [][RecordCommandEnter]_vars

\* the capture stream alone: a stream is started on a device of any native
\* rate and channel count; the session thread has not asked for a frame yet
InitCapture ==
    /\ InitBufState
    /\ frame_lengths = [wwd |-> 0, vad |-> 0]
    /\ InitSession
    /\ config = DefaultConfig
    /\ vad_script = <<>>
    /\ input_sample_rate \in Rates
    /\ channels \in 1..MaxChannels
    /\ CapFresh
    /\ DeviceIdle

SpecCapture == InitCapture /\ [][CaptureCallback]_vars

\* the same stream, mono, by counts, over whole hundredths of a second
InitRate ==
    /\ InitBufState
    /\ frame_lengths = [wwd |-> 0, vad |-> 0]
    /\ InitSession
    /\ config = DefaultConfig
    /\ vad_script = <<>>
    /\ input_sample_rate \in Rates
    /\ channels = 1
    /\ CapFresh
    /\ DeviceIdle

SpecRate == InitRate /\ [][CaptureCallbackCounted]_vars

\* the application before the first start command
InitLifecycle ==
    /\ BufIdle
    /\ is_running = FALSE
    /\ ctl_pc = "none"
    /\ frame_count = 0
    /\ silence_threshold_frames = 0
    /\ is_speaking = FALSE
    /\ silent_frames = 0
    /\ speech_frames = 0
    /\ speech_segment = <<>>
    /\ recent_frames = <<>>
    /\ outcome = "none"
    /\ frames_taken = 0
    /\ frames_seen = 0
    /\ run_speech = 0
    /\ run_silence = 0
    /\ on_script = TRUE
    /\ frames_after_stop = 0
    /\ phase = "Idle"
    /\ phase_writer = "none"
    /\ last_emitted = "Idle"
    /\ prev_emitted = "none"
    /\ failure_reported = FALSE
    /\ last_call = "none"
    /\ result_samples = <<>>
    /\ stt_called = FALSE
    /\ keyword_index = <<>>
    /\ stt_input = NoAudio
    /\ handle = "none"
    /\ capture_streams = 0
    /\ start_error = FALSE
    /\ starts = 0
    /\ orphans = 0
    /\ stop_error = FALSE
    /\ stops = 0
    /\ \E sc \in TurnScenarios :
          /\ config = sc.config
          /\ vad_script = sc.vad_script

\* start and stop commands in any order, around the session threads
NextLifecycle ==
    \/ CmdStartJarvis
    \/ StopRequested
    \/ StopRefused
    \/ ConfigLoadFails
    \/ CaptureThreadReturns
    \/ SessionStart
    \/ LoadAssets
    \/ MainLoopTop
    \/ GateCheck
    \/ GateTake
    \/ AfterWake
    \/ RecordCommandEnter
    \/ RecCheck
    \/ RecTake
    \/ Process
    \/ ProcessCommand
    \/ SpeakResponse
    \/ SessionExit

SpecLifecycle == InitLifecycle /\ [][NextLifecycle]_vars

\* device selection alone: the capture thread of a fresh stream chooses its
\* device on a host with any devices, under any configured name and index
InitChoose ==
    /\ InitBufState
    /\ frame_lengths = [wwd |-> 0, vad |-> 0]
    /\ InitSession
    /\ config = DefaultConfig
    /\ vad_script = <<>>
    /\ CapIdle
    /\ InitDevice

SpecDevice == InitChoose /\ [][ChooseInputDevice]_vars

(***************************************************************************)
(* Frame Buffer claims (checked under Spec)                                *)
(***************************************************************************)
StrictlyIncreasing(q) == \A i \in 1..(Len(q) - 1) : q[i] < q[i + 1]

\* C1 (drop-oldest law): when more than Capacity samples were pushed with no
\* take in between, the buffer holds exactly the last Capacity pushed samples,
\* in push order.
C1_DropOldestLaw ==
    pushed_since_take > Capacity =>
        audio_buffer = Range(last_pushed - Capacity + 1, last_pushed)

C1_Witness ==
    /\ pushed_since_take > Capacity + 1
    /\ Len(audio_buffer) = Capacity

\* C2: under every interleaving of pushes and takes the buffer never holds
\* more than Capacity samples, and a push at full capacity evicts the oldest
\* sample and appends the new one.
C2_LengthBounded ==
    /\ [](Len(audio_buffer) <= Capacity)
    /\ [][(last_pushed' # last_pushed /\ Len(audio_buffer) = Capacity) =>
            audio_buffer' = Append(Tail(audio_buffer), last_pushed')]_vars

C2_Witness ==
    /\ evictions > 0
    /\ Len(takers) > 0
    /\ Len(audio_buffer) = Capacity

\* C3: next_audio_frame returns only from its locked check, only when at least
\* frame_size samples are buffered, and then returns exactly the frame_size
\* oldest samples in arrival order and removes exactly those; while the reader
\* holds the lock nothing else changes the buffer.
C3_TakeExact ==
    /\ [](StrictlyIncreasing(audio_buffer))
    /\ [](rd_pc = "ret" => Len(rd_frame) = frame_size)
    /\ [][(rd_pc' = "ret" /\ rd_pc # "ret") =>
            /\ rd_pc = "check"
            /\ lock_holder = "reader"
            /\ Len(audio_buffer) >= frame_size
            /\ rd_frame' = SubSeq(audio_buffer, 1, frame_size)
            /\ audio_buffer' = SubSeq(audio_buffer, frame_size + 1, Len(audio_buffer))]_vars
    /\ [][(lock_holder = "reader" /\ audio_buffer' # audio_buffer) => rd_pc' = "ret"]_vars

C3_Witness ==
    /\ rd_pc = "ret"
    /\ frame_size = 2
    /\ rd_frame = <<2, 3>>
    /\ audio_buffer = <<4>>

\* C4: the concatenation of all frames delivered to the Gate and the Segmenter
\* is an order-preserving, duplicate-free subsequence of the pushed stream, and
\* a prefix of it as long as nothing was evicted.
C4_DeliveredInOrder ==
    /\ StrictlyIncreasing(delivered)
    /\ \A i \in 1..Len(delivered) : delivered[i] \in 1..last_pushed
    /\ evictions = 0 => delivered = Range(1, Len(delivered))

C4_Witness ==
    /\ evictions = 0
    /\ frame_lengths.wwd > 0
    /\ frame_lengths.vad > 0
    /\ \E i \in 1..(Len(takers) - 2) :
          takers[i] = "gate" /\ takers[i + 1] = "record" /\ takers[i + 2] = "gate"
    /\ Len(delivered) >= 2 * frame_lengths.wwd + frame_lengths.vad

\* C5: the capture callback never waits on the reader and every sample handed
\* to it is appended to the buffer, also after the lock has been poisoned.
C5_PushNeverBlocksNorDrops ==
    /\ ~(cb_pc = "lock" /\ lock_holder = "reader")
    /\ dropped = 0

\* the part of C5 about a poisoned lock alone
C5_NoSampleLost == dropped = 0

(***************************************************************************)
(* Segmenter and Gate claims (checked under SpecSeg and SpecThreshold)     *)
(***************************************************************************)
\* a step in which record_command classifies one more frame
FrameProcessed == frames_seen' = frames_seen + 1

InRecord == ctl_pc \in {"rec_check", "rec_take", "process"}

CeilDiv(a, b) == (a + b - 1) \div b

\* C6, as stated: for every trigger count K an Armed segmenter becomes
\* Triggered exactly on the K-th consecutive speech frame, the utterance then
\* being exactly those K frames in order; a silence frame in Armed resets the
\* run and clears the pre-roll.
C6_TriggerOnKthFrame ==
    [][(FrameProcessed /\ ~is_speaking) =>
          /\ is_speaking' <=>
                (run_speech' > 0 /\ run_speech' = config.speech_trigger_frames)
          /\ is_speaking' =>
                speech_segment' =
                    Range(frames_seen' - config.speech_trigger_frames + 1, frames_seen')
          /\ run_speech' = 0 => (speech_frames' = 0 /\ recent_frames' = <<>>)]_vars

\* C6, amended: the same for every trigger count K >= 1.
C6_TriggerOnKthFramePositive ==
    [][(FrameProcessed /\ ~is_speaking /\ config.speech_trigger_frames >= 1) =>
          /\ is_speaking' <=>
                (run_speech' > 0 /\ run_speech' = config.speech_trigger_frames)
          /\ is_speaking' =>
                speech_segment' =
                    Range(frames_seen' - config.speech_trigger_frames + 1, frames_seen')
          /\ run_speech' = 0 => (speech_frames' = 0 /\ recent_frames' = <<>>)]_vars

C6_Witness ==
    /\ config.speech_trigger_frames = 2
    /\ is_speaking
    /\ frames_seen = 5
    /\ run_speech = 2
    /\ speech_segment = <<4, 5>>

\* C7: a Triggered segmenter returns the utterance exactly when it processes
\* the F-th consecutive silence frame, F the threshold in frames; a speech
\* frame in Triggered resets silent_frames to 0; the utterance is returned
\* from Triggered only.
C7_CloseOnFthSilence ==
    /\ [][(FrameProcessed /\ is_speaking) =>
            /\ outcome' = "utterance" <=> run_silence' = silence_threshold_frames
            /\ run_speech' > 0 => silent_frames' = 0]_vars
    /\ [][(outcome' = "utterance" /\ outcome # "utterance") =>
            (FrameProcessed /\ is_speaking)]_vars

C7_Witness ==
    /\ outcome = "utterance"
    /\ silence_threshold_frames = 6
    /\ run_silence = 6
    /\ ~on_script
    /\ frames_seen = config.speech_trigger_frames + 6 + 3
    /\ Len(speech_segment) = frames_seen

\* C8, as stated: for every trigger count K, K speech frames followed by F
\* silence frames yield the utterance on frame K + F, and its length is
\* (K + F) * L samples; with the default configuration (30 ms, K = 8, 1 s)
\* that is (8 + 34) * 480 samples.
C8_EndToEndLength ==
    LET K == config.speech_trigger_frames
        F == silence_threshold_frames
        L == FrameLengthVad(config)
    IN  /\ (InRecord /\ on_script /\ frames_seen >= K + F) =>
              /\ outcome = "utterance"
              /\ frames_seen = K + F
              /\ Len(speech_segment) * L = (K + F) * L
        /\ (InRecord /\ on_script /\ outcome = "utterance" /\ config = DefaultConfig) =>
              Len(speech_segment) * L = (8 + 34) * 480

\* C8, amended: the same for every trigger count K >= 1.
C8_EndToEndLengthPositive ==
    LET K == config.speech_trigger_frames
        F == silence_threshold_frames
        L == FrameLengthVad(config)
    IN  /\ (InRecord /\ on_script /\ frames_seen >= K + F /\ K >= 1) =>
              /\ outcome = "utterance"
              /\ frames_seen = K + F
              /\ Len(speech_segment) * L = (K + F) * L
        /\ (InRecord /\ on_script /\ outcome = "utterance" /\ config = DefaultConfig) =>
              Len(speech_segment) * L = (8 + 34) * 480

C8_Witness ==
    /\ config = DefaultConfig
    /\ vad_script = EndToEndScript
    /\ on_script
    /\ outcome = "utterance"
    /\ frames_seen = 42
    /\ speech_segment = Range(1, 42)

\* C9: the threshold record_command computes is
\* max(ceil(silence_threshold_seconds * 1000 / frame_duration_ms), 5).
C9_ThresholdIsCeiling ==
    ctl_pc = "rec_check" =>
        silence_threshold_frames =
            Max(CeilDiv(config.silence_threshold_seconds * 1000,
                        config.frame_duration_ms), 5)

\* the loop has returned to the controller
LoopReturned == ctl_pc \in {"woke", "process", "failed"}

\* C10, as stated: once is_running is cleared the running Gate / Segmenter
\* takes at most 100 further frames, and when it returns after taking frames
\* with the flag cleared it returns stopped, unless it completed normally
\* (wake match, closed utterance).
C10_StopsWithin100Frames ==
    /\ frames_after_stop <= 100
    /\ (LoopReturned /\ frames_after_stop > 0) =>
          outcome \in {"stopped", "wake", "utterance"}

\* C10, amended: ... returns stopped, unless it completed normally or failed
\* on a classifier or buffer error first; a due check that finds the flag
\* cleared always returns stopped.
C10_StopsWithin100FramesOrFails ==
    /\ [](frames_after_stop <= 100)
    /\ []((LoopReturned /\ frames_after_stop > 0) =>
            outcome \in {"stopped", "wake", "utterance", "error"})
    /\ [][(ctl_pc \in {"gate_check", "rec_check"} /\ ~is_running
              /\ frame_count % 100 = 0 /\ ctl_pc' # ctl_pc) =>
            (outcome' = "stopped" /\ ctl_pc' = "failed")]_vars

C10_Witness ==
    /\ ctl_pc = "failed"
    /\ outcome = "stopped"
    /\ is_speaking
    /\ frame_count = 200
    /\ frames_after_stop = 100

(***************************************************************************)
(* Turn Controller claims (checked under SpecSeg and SpecTurn)             *)
(***************************************************************************)
\* the transitions C11 lists
ClaimedTransitions ==
    {<<"Idle", "WakeListening">>, <<"WakeListening", "Recording">>,
     <<"Recording", "Processing">>, <<"Recording", "WakeListening">>,
     <<"Processing", "Speaking">>, <<"Speaking", "WakeListening">>}

\* C11, as stated: every pair of consecutive phases emitted by the session
\* thread (Idle standing before the first) is Idle -> WakeListening,
\* WakeListening -> Recording, Recording -> Processing, Recording ->
\* WakeListening, Processing -> Speaking or Speaking -> WakeListening.
C11_OnlyClaimedTransitions ==
    prev_emitted # "none" => <<prev_emitted, last_emitted>> \in ClaimedTransitions

\* the transitions of C11 as amended
AmendedTransitions ==
    {<<"Idle", "Loading">>, <<"Loading", "WakeListening">>,
     <<"WakeListening", "WakeListening">>, <<"WakeListening", "Recording">>,
     <<"Recording", "Processing">>, <<"Recording", "WakeListening">>,
     <<"Processing", "Speaking">>, <<"Processing", "WakeListening">>,
     <<"Speaking", "WakeListening">>}
      \cup {<<p, "Idle">> : p \in Phases \ {"Idle"}}

\* C11, amended: every such pair is Idle -> Loading, Loading -> WakeListening,
\* WakeListening -> WakeListening, WakeListening -> Recording, Recording ->
\* Processing, Recording -> WakeListening, Processing -> Speaking, Processing
\* -> WakeListening, Speaking -> WakeListening, or a step from any other
\* phase to Idle; to Idle only when the session has failed or a running Gate
\* or Segmenter was cancelled, and from Recording to WakeListening only with
\* an empty utterance.
C11_OnlyAmendedTransitions ==
    /\ prev_emitted # "none" => <<prev_emitted, last_emitted>> \in AmendedTransitions
    /\ (prev_emitted # "none" /\ last_emitted = "Idle") =>
          (ctl_pc = "done" /\ failure_reported)
    /\ <<prev_emitted, last_emitted>> = <<"Recording", "WakeListening">> =>
          result_samples = <<>>

C11_Witness ==
    /\ prev_emitted = "Speaking"
    /\ last_emitted = "WakeListening"
    /\ ctl_pc = "loop_top"
    /\ outcome = "utterance"

\* C12: whenever the session thread has terminated, the last phase it emitted
\* is Idle.
C12_IdleIsTerminal == ctl_pc = "done" => last_emitted = "Idle"

\* C13: after a classifier (or buffer) error in the Gate or the Segmenter no
\* further frame is consumed and no phase other than Idle is emitted; when the
\* session thread has ended, the failure message and Idle were emitted and
\* is_running is cleared.
C13_ClassifierErrorIsFatal ==
    /\ [][outcome = "error" =>
            /\ frames_taken' = frames_taken
            /\ outcome' = "error"
            /\ \/ UNCHANGED <<prev_emitted, last_emitted>>
               \/ last_emitted' = "Idle"]_vars
    /\ []((outcome = "error" /\ ctl_pc = "done") =>
            /\ failure_reported
            /\ last_emitted = "Idle"
            /\ ~is_running)
    /\ [](outcome = "error" => ctl_pc \in {"failed", "done"})

C13_Witness ==
    /\ outcome = "error"
    /\ ctl_pc = "done"
    /\ last_call = "record"
    /\ is_speaking
    /\ frames_taken > 8
    /\ prev_emitted = "Recording"
    /\ last_emitted = "Idle"
    /\ failure_reported

\* C14: when the Gate or the Segmenter stopped because is_running was cleared,
\* no failure message is reported to the observers.
C14_CancelNotReported == ~(outcome = "stopped" /\ failure_reported)

\* C15: when the Segmenter has returned because is_running was cleared, the
\* controller got no samples, whatever was accumulated; it emits no Processing
\* (or Speaking) phase and does not call the transcription for that recording.
C15_CancelDiscardsUtterance ==
    (outcome = "stopped" /\ last_call = "record") =>
        /\ result_samples = <<>>
        /\ ~stt_called
        /\ last_emitted \in {"Recording", "Idle"}
        /\ ctl_pc \in {"failed", "done"}

C15_Witness ==
    /\ outcome = "stopped"
    /\ last_call = "record"
    /\ is_speaking
    /\ Len(speech_segment) > 50
    /\ frame_count = 100
    /\ ctl_pc = "done"

\* C16: the phase event the observers see last was emitted by the session
\* thread, never by a command available to an observer.
C16_OnlyControllerWrites == phase_writer # "observer"

(***************************************************************************)
(* Capture stream claims (checked under SpecRate and SpecCapture)          *)
(***************************************************************************)
\* C17: when a stream of rate R in {8000, 16000, 44100, 48000} has delivered
\* T * R samples, T a whole number of hundredths of a second, the number of
\* samples pushed is within 1 of T * 16000, however the input was split into
\* buffers.
C17_OutputLengthWithinOne ==
    (hw_frames * 100) % input_sample_rate = 0 =>
        LET hundredths == (hw_frames * 100) \div input_sample_rate
        IN  pushed_count - hundredths * (SAMPLE_RATE \div 100) \in -1..1

C17_Witness ==
    /\ input_sample_rate = 44100
    /\ hw_frames = 882
    /\ pushed_count = 320

\* C18, as stated: after every input sample the phase lies in [0, 1), and the
\* ratio is the one computed at stream start.
C18_PhaseInUnitInterval ==
    /\ resample_pos >= 0
    /\ resample_pos < SAMPLE_RATE
    /\ resample_factor = ResampleFactor(input_sample_rate)

\* C18, amended: after every input sample the phase lies in
\* [0, max(1, ratio)), and the ratio is the one computed at stream start and
\* never changes.
C18_PhaseBelowRatio ==
    /\ [](/\ resample_pos >= 0
          /\ resample_pos < Max(SAMPLE_RATE, resample_factor)
          /\ resample_factor = ResampleFactor(input_sample_rate))
    /\ [][resample_factor' = resample_factor]_vars

C18_Witness ==
    /\ input_sample_rate = 44100
    /\ hw_frames > 100
    /\ resample_pos > 2 * SAMPLE_RATE

\* C19: whatever the split of the input into hardware buffers, the samples
\* pushed so far are those the resample loop yields for the whole input in
\* one buffer, from phase 0.
C19_SplitIndependent ==
    cap_pushed = IF resample_factor # SAMPLE_RATE
                   THEN ResampleLoop(cap_mono, 0, resample_factor).out
                   ELSE cap_mono

C19_Witness ==
    /\ input_sample_rate = 44100
    /\ channels = 1
    /\ hw_splits = <<3, 1, 3>>
    /\ cap_pushed = <<1, 3, 6>>

\* C20: the samples an invocation feeds to the resampler are those at indices
\* 0, C, 2C, ... of the delivered buffer; at a native rate of 16 kHz they are
\* pushed unchanged, none duplicated, none dropped, and the buffer holds the
\* latest of them.
C20_DownMixStride ==
    hw_data # <<>> =>
        LET n == Len(hw_data) \div channels
            fed == SubSeq(cap_mono, Len(cap_mono) - n + 1, Len(cap_mono))
            kept == Min(Len(cap_pushed), Capacity)
        IN  /\ Len(hw_data) = n * channels
            /\ fed = [j \in 1..n |-> hw_data[(j - 1) * channels + 1]]
            /\ Len(cap_mono) = hw_frames
            /\ input_sample_rate = SAMPLE_RATE =>
                  /\ cb_out = fed
                  /\ cap_pushed = cap_mono
                  /\ audio_buffer =
                        SubSeq(cap_pushed, Len(cap_pushed) - kept + 1, Len(cap_pushed))

C20_Witness ==
    /\ channels = 2
    /\ input_sample_rate = SAMPLE_RATE
    /\ hw_data = <<5, 6, 7, 8>>
    /\ cb_out = <<5, 7>>
    /\ audio_buffer = <<3, 5, 7>>

(***************************************************************************)
(* Device selection claims (checked under SpecDevice)                      *)
(***************************************************************************)
\* the devices whose readable name contains the query, case-insensitively
MatchingDevices ==
    IF microphone_name = NoName THEN {}
    ELSE {i \in 0..(Len(host_devices) - 1) :
            /\ host_devices[i + 1] # Unreadable
            /\ \E k \in 0..Len(host_devices[i + 1]) :
                 \E l \in 0..Len(host_devices[i + 1]) :
                    ToLowercase(SubSeq(host_devices[i + 1], k + 1, l))
                        = ToLowercase(microphone_name)}

Selected == chosen_device # <<>> /\ ~enumeration_fails /\ host_devices # <<>>

\* C21: over a non-empty enumerated list, when some device name contains the
\* query case-insensitively the first such device is selected, whatever the
\* index; otherwise the device at the configured index, or the one at index 0
\* when the index is out of range.
C21_SelectByNameThenIndex ==
    Selected =>
        IF MatchingDevices # {}
          THEN /\ chosen_device[1] \in MatchingDevices
               /\ \A i \in MatchingDevices : chosen_device[1] <= i
          ELSE chosen_device[1] = IF microphone_index < Len(host_devices)
                                    THEN microphone_index ELSE 0

C21_Witness ==
    /\ Selected
    /\ host_devices = <<<<"m">>, <<"M", "u">>>>
    /\ microphone_name = <<"m", "u">>
    /\ microphone_index = 0
    /\ chosen_device = <<1>>

\* C22, as stated: no device is selected only if the host has no input
\* device; on every non-empty device list a device is selected.
C22_NoneOnlyWithoutDevices ==
    chosen_device # <<>> =>
        (chosen_device = <<-1>> <=> host_devices = <<>>)

\* C22, amended: no device is selected only if enumerating the devices fails
\* or yields none; on every non-empty enumerated list a device of the list is
\* selected.
C22_NoneOnlyWithoutEnumeratedDevices ==
    chosen_device # <<>> =>
        /\ chosen_device = <<-1>> <=> (enumeration_fails \/ host_devices = <<>>)
        /\ chosen_device # <<-1>> => chosen_device[1] \in 0..(Len(host_devices) - 1)

C22_Witness ==
    /\ chosen_device = <<0>>
    /\ ~enumeration_fails
    /\ host_devices = <<<<"m">>>>
    /\ microphone_name = <<"u", "m">>
    /\ microphone_index = MaxDevices

(***************************************************************************)
(* Reader claims                                                           *)
(***************************************************************************)
\* the reader is inside take, the buffer holds less than a frame and no
\* callback will push again
ReaderStarved ==
    /\ rd_pc \in {"lock", "check", "sleep"}
    /\ Len(audio_buffer) < frame_size
    /\ cb_pc = "dead"

\* C23: when the buffer no longer receives samples and the reader is inside
\* take, clearing is_running makes the session thread leave take and end.
C23_StopEndsStarvedTake ==
    (ReaderStarved /\ ~is_running) ~> (caller = "ended")

\* C28: the reader never sleeps with the lock held: while it sleeps the lock
\* is free or the callback's; the reader holds it only for the length test
\* and the drain, and its next step gives it back; the callback holds it only
\* over its push loop.
C28_NoSleepUnderLock ==
    /\ [](rd_pc = "sleep" => lock_holder # "reader")
    /\ [](lock_holder = "reader" => rd_pc = "check")
    /\ [](lock_holder = "callback" => cb_pc = "push")
    /\ [][(lock_holder = "reader" /\ rd_pc' # rd_pc) => lock_holder' = "none"]_vars

C28_Witness == rd_pc = "sleep" /\ lock_holder = "callback" /\ Len(takers) > 0

\* C29: a take on a poisoned buffer does not wait, returns the error and
\* no samples, leaves the buffer as it is; the error ends the calling loop and
\* the session, which is reported and returns to Idle.
C29_PoisonedTakeEndsSession ==
    /\ [](poisoned => lock_holder = "none")
    /\ [][(rd_pc = "lock" /\ poisoned /\ rd_pc' # rd_pc)
            => /\ rd_pc' = "err"
               /\ audio_buffer' = audio_buffer
               /\ delivered' = delivered
               /\ rd_frame' = rd_frame]_vars
    /\ [][(rd_pc = "err" /\ rd_pc' # rd_pc)
            => (caller' = "ended" /\ ctl_pc' = "failed")]_vars
    /\ [][ctl_pc = "failed" => ctl_pc' \in {"failed", "done"}]_vars
    /\ [](ctl_pc = "done" => (last_emitted = "Idle" /\ failure_reported /\ ~is_running))

C29_Witness ==
    /\ ctl_pc = "done"
    /\ poisoned
    /\ caller = "ended"
    /\ last_emitted = "Idle"
    /\ audio_buffer # <<>>
    /\ Len(takers) > 0

(***************************************************************************)
(* Gate, padding and pre-roll claims (checked under SpecSeg)               *)
(***************************************************************************)
\* C25: the Gate returns success on the first frame for which the engine
\* answers a non-negative index, whatever the index, and takes no frame after
\* it; on a negative index it counts the frame and goes on to the next one.
C25_GateReturnsOnFirstMatch ==
    /\ [][(ctl_pc = "gate_take" /\ ctl_pc' # ctl_pc /\ keyword_index' # <<>>)
            => IF keyword_index'[1] >= 0
                 THEN /\ ctl_pc' = "woke"
                      /\ outcome' = "wake"
                      /\ frames_taken' = frames_taken + 1
                 ELSE /\ ctl_pc' = "gate_check"
                      /\ frame_count' = frame_count + 1
                      /\ outcome' = outcome]_vars
    /\ [](ctl_pc = "woke" => (keyword_index # <<>> /\ frames_taken = frame_count + 1))
    /\ [][ctl_pc = "woke" => frames_taken' = frames_taken]_vars

C25_Witness ==
    /\ ctl_pc = "woke"
    /\ keyword_index = <<MaxKeyword>>
    /\ frame_count = 2
    /\ frames_taken = 3

\* C26: what speech-to-text is given has max(len, 19200) samples: the
\* utterance unchanged, followed by zeros up to 19200 samples when it is
\* shorter, and by nothing when it has 19200 samples or more.
C26_PaddedToMinimum ==
    stt_called =>
        LET len == Len(result_samples) * FrameLengthVad(config)
        IN  /\ stt_input.samples = result_samples
            /\ len + stt_input.zeros = Max(len, 19200)
            /\ stt_input.zeros >= 0
            /\ len >= 19200 => stt_input.zeros = 0

C26_Witness ==
    /\ stt_called
    /\ Len(result_samples) > 0
    /\ Len(result_samples) * FrameLengthVad(config) < 19200
    /\ stt_input.zeros > 0
    /\ stt_input.samples = result_samples

\* C27: during a recording attempt the pre-roll never holds more than
\* speech_trigger_frames frames, is_speaking once true stays true, and the
\* utterance is empty while is_speaking is false.
C27_PreRollBoundedUtteranceEmpty ==
    /\ [](Len(recent_frames) <= config.speech_trigger_frames)
    /\ [](InRecord /\ ~is_speaking => speech_segment = <<>>)
    /\ [][(is_speaking /\ ctl_pc \in {"rec_check", "rec_take"}) => is_speaking']_vars

C27_Witness ==
    /\ ctl_pc = "rec_check"
    /\ ~is_speaking
    /\ config.speech_trigger_frames = MaxTrigger
    /\ Len(recent_frames) = MaxTrigger - 1
    /\ frames_seen >= MaxTrigger + 1
    /\ speech_segment = <<>>

(***************************************************************************)
(* Start / stop claims (checked under SpecLifecycle)                       *)
(***************************************************************************)
SessionThreadAlive == handle = "some" /\ ctl_pc # "done"

LiveSessionThreads == orphans + (IF SessionThreadAlive THEN 1 ELSE 0)

\* C24: no capture stream outlives its session: at most one capture thread
\* is alive, and none once the session thread has finished.
C24_OneCaptureStream ==
    /\ capture_streams <= 1
    /\ ~SessionThreadAlive => capture_streams = 0

\* C30: at most one session thread is alive; a start command while the
\* thread of the stored handle has not finished returns the error and changes
\* neither the flag nor the handle nor the thread; any other start sets the
\* flag and spawns a thread.
C30_OneSessionThread ==
    /\ [](LiveSessionThreads <= 1)
    /\ [][starts' # starts
            => IF SessionThreadAlive
                 THEN /\ start_error'
                      /\ UNCHANGED <<is_running, handle, ctl_pc, orphans>>
                 ELSE /\ ~start_error'
                      /\ is_running'
                      /\ handle' = "some"
                      /\ ctl_pc' = "start"]_vars

C30_Witness ==
    /\ start_error
    /\ ~is_running
    /\ ctl_pc = "gate_take"
    /\ starts = MaxStarts
    /\ capture_streams >= 1

StopPending == SessionThreadAlive /\ ~is_running

\* C38: between a stop and the end of the session thread the status query
\* answers false, a further stop is refused and changes nothing, a start is
\* refused; a start is accepted only when no session thread is alive.
C38_StopPendingRefusesCommands ==
    /\ [](StopPending => ~CmdGetJarvisStatus)
    /\ [][StopPending => ~is_running']_vars
    /\ [][(StopPending /\ stops' # stops)
            => /\ stop_error'
               /\ UNCHANGED <<bufVars, segVars, capVars, devVars, keyword_index,
                              stt_input, threadVars>>]_vars
    /\ [][(StopPending /\ starts' # starts)
            => /\ start_error'
               /\ UNCHANGED <<bufVars, segVars, capVars, devVars, keyword_index,
                              stt_input, handle, capture_streams, orphans, stopVars>>]_vars
    /\ [][(starts' # starts /\ ~start_error') => ~SessionThreadAlive]_vars

C38_Witness ==
    /\ StopPending
    /\ stop_error
    /\ start_error
    /\ stops = 2
    /\ ctl_pc = "rec_take"

(***************************************************************************)
(* Turn order and segmenter claims (checked under SpecSeg)                 *)
(***************************************************************************)
\* C32: in the order of the controller's emissions Recording comes right
\* after WakeListening and only once the Gate has matched, Processing right
\* after Recording and only once the Segmenter has returned an utterance, and
\* Speaking right after Processing.
C32_PhaseOrder ==
    /\ [](last_emitted = "Recording" => prev_emitted = "WakeListening")
    /\ [](last_emitted = "Processing" => prev_emitted = "Recording")
    /\ [](last_emitted = "Speaking" => prev_emitted = "Processing")
    /\ [][(last_emitted' = "Recording" /\ last_emitted # "Recording")
            => (ctl_pc = "woke" /\ outcome = "wake" /\ keyword_index # <<>>)]_vars
    /\ [][(last_emitted' = "Processing" /\ last_emitted # "Processing")
            => (last_call = "record" /\ outcome = "utterance"
                  /\ result_samples # <<>>)]_vars

C32_Witness ==
    /\ ctl_pc = "speaking"
    /\ last_emitted = "Speaking"
    /\ prev_emitted = "Processing"
    /\ stt_called

\* C34: an utterance the Segmenter returns consists of whole frames, at least
\* K + F of them with F >= 5, so it is not empty and the controller always
\* goes on to Processing.
C34_UtteranceAtLeastKPlusF ==
    /\ [](ctl_pc = "process" => outcome = "utterance")
    /\ [](outcome = "utterance"
            => LET L == FrameLengthVad(config)
                   K == config.speech_trigger_frames
                   F == silence_threshold_frames
               IN  /\ F >= 5
                   /\ Len(result_samples) * L >= (K + F) * L
                   /\ (L > 0 => Len(result_samples) * L > 0))
    /\ [][(ctl_pc = "process" /\ ctl_pc' # ctl_pc)
            => (ctl_pc' = "processing" /\ last_emitted' = "Processing")]_vars

C34_Witness ==
    /\ ctl_pc = "process"
    /\ config.speech_trigger_frames = MaxTrigger
    /\ Len(result_samples) = MaxTrigger + silence_threshold_frames
    /\ silence_threshold_frames = MinSilenceFrames

\* C35: the Segmenter leaves Armed only by K consecutive speech frames, so
\* without them it returns no utterance; while Armed it leaves its loop only
\* on an error or on finding the flag cleared at a frame count that is a
\* multiple of 100.
C35_NoTimeoutInArmed ==
    /\ [][(~is_speaking /\ is_speaking')
            => (run_speech' >= config.speech_trigger_frames /\ run_speech' >= 1)]_vars
    /\ [](ctl_pc = "process" => (outcome = "utterance" /\ is_speaking))
    /\ [][(ctl_pc \in {"rec_check", "rec_take"} /\ ~is_speaking /\ ~is_speaking'
             /\ ctl_pc' \notin {"rec_check", "rec_take"})
            => \/ outcome' = "error"
               \/ (outcome' = "stopped" /\ ~is_running /\ frame_count % 100 = 0)]_vars

C35_Witness ==
    /\ ctl_pc = "rec_check"
    /\ ~is_speaking
    /\ config.speech_trigger_frames = MaxTrigger
    /\ frames_seen = MaxFreeFrames
    /\ is_running

\* C39: with K = 0 the first speech frame triggers and is not part of the
\* utterance: the utterance is empty right after the trigger and its first
\* frame is the one that follows.
C39_ZeroTriggerDropsFrame ==
    /\ [][(config.speech_trigger_frames = 0 /\ ~is_speaking /\ is_speaking')
            => (run_speech' = 1 /\ speech_segment' = <<>> /\ recent_frames' = <<>>)]_vars
    /\ [][(config.speech_trigger_frames = 0 /\ is_speaking /\ speech_segment = <<>>
             /\ speech_segment' # <<>>)
            => speech_segment' = <<frame_count + 1>>]_vars
    /\ [][(config.speech_trigger_frames = 0 /\ ctl_pc = "rec_take" /\ ~is_speaking
             /\ run_speech' = 1)
            => is_speaking']_vars

C39_Witness ==
    /\ config.speech_trigger_frames = 0
    /\ is_speaking
    /\ speech_segment = <<3>>
    /\ frames_seen = 3
    /\ run_speech = 2

(***************************************************************************)
(* The phase query                                                         *)
(***************************************************************************)
\* C33: the phase query returns the phase the Turn Controller emitted last,
\* so it is not Idle while the session is in WakeListening, Recording,
\* Processing or Speaking.
C33_StateQueryReturnsPhase ==
    /\ CmdGetJarvisState = last_emitted
    /\ (last_emitted \in {"WakeListening", "Recording", "Processing", "Speaking"}
          => CmdGetJarvisState # "Idle")

(***************************************************************************)
(* Frames longer than the buffer (checked under SpecOversize)              *)
(***************************************************************************)
\* C37: a take of more samples than the Frame Buffer can hold never returns
\* a frame: the buffer never grows past its capacity, so the availability
\* test fails on every poll, whatever is pushed; the take delivers nothing
\* and only ends if the lock is found poisoned or the thread dies.
C37_OversizeTakeNeverReturns ==
    /\ [](Len(audio_buffer) <= Capacity)
    /\ []((rd_pc \in {"lock", "check", "sleep", "ret"} /\ frame_size > Capacity)
            => (rd_pc # "ret" /\ ~FrameAvailable(audio_buffer, frame_size)))
    /\ [][(rd_pc \in {"lock", "check", "sleep"} /\ frame_size > Capacity)
            => /\ \/ rd_pc' \in {"lock", "check", "sleep"}
                  \/ (rd_pc' = "err" /\ poisoned)
                  \/ (rd_pc' = "idle" /\ poisoned' /\ caller' = "ended")
               /\ delivered' = delivered
               /\ takers' = takers]_vars

C37_Witness ==
    /\ frame_size = Capacity + 1
    /\ rd_pc = "sleep"
    /\ Len(audio_buffer) = Capacity
    /\ evictions > 0
    /\ pushed_since_take > Capacity

====
